---- MODULE Spec2Model ----
(***************************************************************************)
(* A model of SkillGuard's dependency reconciliation and risk scoring:     *)
(*   - scorer.ts        calculateRiskScore, getRiskLevel                   *)
(*   - dependencies.ts  checkDependency, inspectDependenciesAsync,         *)
(*                      sortFindings                                       *)
(*   - vulnerabilities.ts  runNpmAudit, queryOsv, batchQueryOsv,           *)
(*                      scanWithOsv, scanVulnerabilities                   *)
(* Each component has its own specification (SpecScore, SpecLevel, ...);   *)
(* the variables of the other components stay at their initial values.     *)
(***************************************************************************)
EXTENDS Integers, Sequences, FiniteSets, TLC

VARIABLES
    \* ---- calculateRiskScore (scorer.ts) ----
    spc,            \* position in calculateRiskScore: "code", "deps", "done"
    score,          \* the local `score`
    nCode,          \* code findings iterated so far
    nDeps,          \* dependency findings iterated so far
    lastCategory,   \* category of the code finding iterated last ("" before)
    lastSeverity,   \* its severity ("" before)
    lastAdded,      \* what that iteration added to `score`
    claimedSum,     \* the sum S the documentation describes, kept alongside
    onlyEnvLow,     \* every code finding so far was Environment Access / low
    riskScore,      \* ScanResult.riskScore
    riskLevel,      \* ScanResult.riskLevel
    \* ---- getRiskLevel applied to arbitrary scores ----
    lpc,            \* "input" before the calls, "done" after
    probeA, probeB, \* two scores
    levelA, levelB, \* getRiskLevel of each ("" before the call)
    \* ---- inspectDependencies / inspectDependenciesAsync (dependencies.ts) ----
    dpc,            \* position: "start", "audit", "osv", "merge", "reconcile",
                    \*           "returned", "done"
    called,         \* which entry point ran: "sync", "async" ("" before)
    hasManifest,    \* readPackageJson returns a manifest (not null)
    dependencies,   \* getAllDependencies(packageJson): names, in insertion order
    threatFindings, \* `findings` after the checkDependency loop
    auditOutcome,   \* how runNpmAudit ended ("" before)
    npmFindings,    \* what runNpmAudit resolved to
    osvOutcome,     \* how scanWithOsv ended ("" before)
    osvFindings,    \* what scanWithOsv resolved to (<<>> when it rejected)
    scanOutcome,    \* scanVulnerabilities: "resolved" or "rejected" ("" before)
    vulnerabilities,\* what scanVulnerabilities resolved to
    produced,       \* `findings` as handed to the final sortFindings
    depFindings,    \* the list the entry point returned
    depRejected,    \* the entry point's promise rejected
    dependencyFindingsCount, \* ScanResult.dependencyFindingsCount (-1 before)
    \* ---- batchQueryOsv (vulnerabilities.ts) ----
    opc,            \* position: "start", "fallback", "done"
    packages,       \* the batch: [name, version] records
    batchKind,      \* how the batch request ended ("" before)
    results,        \* the Map `results`, as its entries in insertion order
    individual,     \* the individual queries issued: [pkg, kind, vulns] each
    requests,       \* fetch calls issued
    \* ---- runNpmAudit (vulnerabilities.ts) ----
    apc,            \* position: "start", "synthesize", "audit", "loop", "returned"
    manifestExists, \* package.json exists in the target directory
    packageLock,    \* package-lock.json: "absent", "original", "synthesized"
    yarnLock,       \* yarn.lock exists
    packageLock0,   \* package-lock.json when runNpmAudit was called
    auditRun,       \* how `npm audit --json` ended ("" before)
    report,         \* the entries of auditResult.vulnerabilities
    aIdx,           \* entries of the report processed
    aFindings,      \* the local `findings`
    aCaught,        \* the catch at the end of runNpmAudit ran
    aResult,        \* the list runNpmAudit resolved to
    execLog,        \* the commands runNpmAudit gave to execSync, in order
    \* ---- parseLockFile, parsePackageJson, scanWithOsv's package list ----
    kpc,            \* position: "start", "fallback", "selected"
    lockFile,       \* package-lock.json as parseLockFile found it
    lockRefs,       \* what parseLockFile returned
    manifestFile,   \* package.json as parsePackageJson found it
    usedManifest,   \* parsePackageJson was called
    queried,        \* `packages`, the list scanWithOsv goes on to query
    \* ---- parsePackageJson.extractDeps: one version range ----
    rpc,            \* position: "start", "done"
    rOperator,      \* the operator of the range's first comparator
    rGap,           \* what stands between the operator and the version
    rVersion,       \* the version of the first comparator
    rRest,          \* what follows the first comparator
    versionRange,   \* the range string of the manifest
    cleaned,        \* the `version` extractDeps pushed
    \* ---- scanWithOsv: the severity of one advisory ----
    cpc,            \* position: "start", "done"
    advFormat,      \* the advisory's `severity` list: "none", "other_type",
                    \* "number" (CVSS_V3, score a decimal number), "vector30",
                    \* "vector31" (CVSS_V3, score a CVSS vector)
    advBase,        \* the advisory's CVSS v3 base score, in tenths
    advScore,       \* the `score` string of the CVSS_V3 entry (<<>>: no entry)
    cvssScore,      \* the local `cvssScore`, in tenths (-1: undefined)
    osvSeverity,    \* the `severity` of the finding pushed
    \* ---- checkDependency (dependencies.ts) on one name ----
    tpc,            \* position: "start", "done"
    checkedName,    \* the package name checked
    tBase,          \* the THREAT_DATABASE entry the name was written from (0: none)
    tResult,        \* what checkDependency returned (<<>>: null)
    \* ---- inspectDependenciesAsync over a project's files ----
    mpc,            \* position: "start", "scan", "returned"
    mLock,          \* package-lock.json of the project
    mManifest,      \* package.json of the project
    mFindings,      \* the local `findings`, at the end the list returned
    gpc,            \* where the merge step applied twice stands
    mergeList,      \* the finding list given as both lists of the merge step
    mergedOnce,     \* the merge of mergeList with itself
    mergedTwice,    \* the merge of mergedOnce with itself
    fpc,            \* where analyzeFile stands
    sourcePath,     \* the path of the file given to analyzeFile
    sourceReadable, \* whether fs.readFileSync succeeds on it
    sourceLines,    \* its text: one sequence of lexemes per line
    fileFindings,   \* what analyzeFile resolves to
    jpc,            \* where scanVulnerabilities stands
    jManifest,      \* package.json of the project
    jLock0,         \* package-lock.json when scanVulnerabilities is called
    jLock,          \* package-lock.json now
    jYarn,          \* whether yarn.lock exists
    jDone,          \* the sources that have completed
    jQueried,       \* the package list scanWithOsv queries
    wpc,            \* the suspending call inspectDependenciesAsync waits for
    wLock,          \* whether a lock file exists when runNpmAudit starts
    wSilent,        \* the calls whose subprocess never exits, whose request is never answered
    wRuntimeCuts,   \* whether the runtime's fetch gives up on its own
    wPackages,      \* the number of packages to query
    wLeft,          \* the individual requests still to make
    ypc,            \* where the round trip of a map key stands
    yPackage,       \* the package batchQueryOsv was given
    yKey,           \* its key in the map batchQueryOsv returns
    yName,          \* the name of the finding scanWithOsv builds from the key
    yVersion        \* its version

scorerVars == <<spc, score, nCode, nDeps, lastCategory, lastSeverity, lastAdded,
                claimedSum, onlyEnvLow, riskScore, riskLevel>>
levelVars == <<lpc, probeA, probeB, levelA, levelB>>

depVars == <<dpc, called, hasManifest, dependencies, threatFindings, auditOutcome,
             npmFindings, osvOutcome, osvFindings, scanOutcome, vulnerabilities,
             produced, depFindings, depRejected, dependencyFindingsCount>>

osvVars == <<opc, packages, batchKind, results, individual, requests>>

auditVars == <<apc, manifestExists, packageLock, yarnLock, packageLock0, auditRun,
               report, aIdx, aFindings, aCaught, aResult, execLog>>

pkgVars == <<kpc, lockFile, lockRefs, manifestFile, usedManifest, queried>>

rangeVars == <<rpc, rOperator, rGap, rVersion, rRest, versionRange, cleaned>>

cvssVars == <<cpc, advFormat, advBase, advScore, cvssScore, osvSeverity>>

threatVars == <<tpc, checkedName, tBase, tResult>>

matcherVars == <<mpc, mLock, mManifest, mFindings>>

mergeVars == <<gpc, mergeList, mergedOnce, mergedTwice>>

fileVars == <<fpc, sourcePath, sourceReadable, sourceLines, fileFindings>>

joinVars == <<jpc, jManifest, jLock0, jLock, jYarn, jDone, jQueried>>

waitVars == <<wpc, wLock, wSilent, wRuntimeCuts, wPackages, wLeft>>

keyVars == <<ypc, yPackage, yKey, yName, yVersion>>

\* what the actions of one component leave alone
notScorer == <<levelVars, depVars, osvVars, auditVars, pkgVars, rangeVars, cvssVars, threatVars, matcherVars, mergeVars, fileVars, joinVars, waitVars, keyVars>>
notLevel == <<scorerVars, depVars, osvVars, auditVars, pkgVars, rangeVars, cvssVars, threatVars, matcherVars, mergeVars, fileVars, joinVars, waitVars, keyVars>>
notDeps == <<scorerVars, levelVars, osvVars, auditVars, pkgVars, rangeVars, cvssVars, threatVars, matcherVars, mergeVars, fileVars, joinVars, waitVars, keyVars>>
notOsv == <<scorerVars, levelVars, depVars, auditVars, pkgVars, rangeVars, cvssVars, threatVars, matcherVars, mergeVars, fileVars, joinVars, waitVars, keyVars>>
notAudit == <<scorerVars, levelVars, depVars, osvVars, pkgVars, rangeVars, cvssVars, threatVars, matcherVars, mergeVars, fileVars, joinVars, waitVars, keyVars>>
notPkg == <<scorerVars, levelVars, depVars, osvVars, auditVars, rangeVars, cvssVars, threatVars, matcherVars, mergeVars, fileVars, joinVars, waitVars, keyVars>>
notRange == <<scorerVars, levelVars, depVars, osvVars, auditVars, pkgVars, cvssVars, threatVars, matcherVars, mergeVars, fileVars, joinVars, waitVars, keyVars>>
notCvss == <<scorerVars, levelVars, depVars, osvVars, auditVars, pkgVars, rangeVars, threatVars, matcherVars, mergeVars, fileVars, joinVars, waitVars, keyVars>>
notThreat == <<scorerVars, levelVars, depVars, osvVars, auditVars, pkgVars, rangeVars, cvssVars, matcherVars, mergeVars, fileVars, joinVars, waitVars, keyVars>>
notMatcher == <<scorerVars, levelVars, depVars, osvVars, auditVars, pkgVars, rangeVars, cvssVars, threatVars, mergeVars, fileVars, joinVars, waitVars, keyVars>>
notMerge == <<scorerVars, levelVars, depVars, osvVars, auditVars, pkgVars, rangeVars, cvssVars, threatVars, matcherVars, fileVars, joinVars, waitVars, keyVars>>
notFile == <<scorerVars, levelVars, depVars, osvVars, auditVars, pkgVars, rangeVars, cvssVars, threatVars, matcherVars, mergeVars, joinVars, waitVars, keyVars>>
notJoin == <<scorerVars, levelVars, depVars, osvVars, auditVars, pkgVars, rangeVars, cvssVars, threatVars, matcherVars, mergeVars, fileVars, waitVars, keyVars>>
notWait == <<scorerVars, levelVars, depVars, osvVars, auditVars, pkgVars, rangeVars, cvssVars, threatVars, matcherVars, mergeVars, fileVars, joinVars, keyVars>>
notKey == <<scorerVars, levelVars, depVars, osvVars, auditVars, pkgVars, rangeVars, cvssVars, threatVars, matcherVars, mergeVars, fileVars, joinVars, waitVars>>

-----------------------------------------------------------------------------
(* JavaScript numbers: the integers, and NaN (encoded as -1; every weight  *)
(* is positive, so no sum of weights is negative).                         *)

NaN == -1

JsAdd(a, b) == IF a = NaN \/ b = NaN THEN NaN ELSE a + b

MathMax(a, b) == IF a = NaN \/ b = NaN THEN NaN ELSE IF a >= b THEN a ELSE b

MathMin(a, b) == IF a = NaN \/ b = NaN THEN NaN ELSE IF a <= b THEN a ELSE b

\* a <= b in JavaScript: false as soon as one side is NaN
JsLessEq(a, b) == a # NaN /\ b # NaN /\ a <= b

\* a JavaScript value read from an object: a number, undefined, or some
\* object/function inherited from Object.prototype
Num(n) == [kind |-> "number", val |-> n]
Undefined == [kind |-> "undefined", val |-> 0]
Inherited == [kind |-> "object", val |-> 0]

\* `v || 0`
OrZero(v) == IF v.kind = "undefined" \/ (v.kind = "number" /\ v.val = 0) THEN Num(0) ELSE v

\* ToNumber, as Math.max applies it to its operands
ToNumber(v) == IF v.kind = "number" THEN v.val ELSE NaN

-----------------------------------------------------------------------------
(* scorer.ts *)

RiskSeverity == {"critical", "high", "medium", "low"}

CATEGORY_WEIGHTS ==
    [c \in {"Shell Execution", "Code Injection", "File System Write",
            "File System Delete", "File System Permissions", "Network Access",
            "Environment Access"} |->
        CASE c = "Shell Execution" -> 50
          [] c = "Code Injection" -> 50
          [] c = "File System Write" -> 30
          [] c = "File System Delete" -> 30
          [] c = "File System Permissions" -> 25
          [] c = "Network Access" -> 20
          [] c = "Environment Access" -> 10]

SEVERITY_WEIGHTS ==
    [s \in RiskSeverity |->
        CASE s = "critical" -> 50 [] s = "high" -> 30 [] s = "medium" -> 15 [] s = "low" -> 5]

DEPENDENCY_SEVERITY_WEIGHTS ==
    [s \in RiskSeverity |->
        CASE s = "critical" -> 40 [] s = "high" -> 25 [] s = "medium" -> 15 [] s = "low" -> 5]

\* Property names every object literal inherits from Object.prototype
\* (a few of them): CATEGORY_WEIGHTS is a plain object literal.
ObjectPrototypeKeys == {"constructor", "toString"}

\* Categories the analyzers emit that have no weight (a few of them)
UnweightedCategories == {"Deserialization", "Dynamic Method Call"}

\* The category strings the model draws from
Categories == DOMAIN CATEGORY_WEIGHTS \cup UnweightedCategories \cup ObjectPrototypeKeys

\* CATEGORY_WEIGHTS[finding.category]
CategoryLookup(category) ==
    IF category \in DOMAIN CATEGORY_WEIGHTS THEN Num(CATEGORY_WEIGHTS[category])
    ELSE IF category \in ObjectPrototypeKeys THEN Inherited
    ELSE Undefined

\* A mutant of CodeFindingWeight: the two weights added instead of the larger taken
CodeFindingWeightSum(category, severity) ==
    JsAdd(ToNumber(OrZero(CategoryLookup(category))), SEVERITY_WEIGHTS[severity])

\* Math.max(categoryWeight || 0, severityWeight)
CodeFindingWeight(category, severity) ==
    MathMax(ToNumber(OrZero(CategoryLookup(category))), SEVERITY_WEIGHTS[severity])

RiskLevels == <<"safe", "low", "medium", "high", "critical">>

\* A mutant of getRiskLevel: the boundaries exclusive
getRiskLevelExclusive(s) ==
    IF s = 0 THEN "safe"
    ELSE IF s # NaN /\ s < 20 THEN "low"
    ELSE IF s # NaN /\ s < 50 THEN "medium"
    ELSE IF s # NaN /\ s < 75 THEN "high"
    ELSE "critical"

getRiskLevel(s) ==
    IF s = 0 THEN "safe"
    ELSE IF JsLessEq(s, 20) THEN "low"
    ELSE IF JsLessEq(s, 50) THEN "medium"
    ELSE IF JsLessEq(s, 75) THEN "high"
    ELSE "critical"

\* The cap of calculateRiskScore, the top of the score range
MaxRiskScore == 100

\* Bounds of the model
MaxCodeFindings == 10
MaxDepFindings == 2

\* The weight the documentation gives a category: 0 when it has none
DocCategoryWeight(category) ==
    IF category \in DOMAIN CATEGORY_WEIGHTS THEN CATEGORY_WEIGHTS[category] ELSE 0

DocCodeContribution(category, severity) ==
    IF DocCategoryWeight(category) >= SEVERITY_WEIGHTS[severity]
    THEN DocCategoryWeight(category) ELSE SEVERITY_WEIGHTS[severity]

ScorerInit ==
    /\ spc = "code"
    /\ score = 0
    /\ nCode = 0
    /\ nDeps = 0
    /\ lastCategory = ""
    /\ lastSeverity = ""
    /\ lastAdded = 0
    /\ claimedSum = 0
    /\ onlyEnvLow = TRUE
    /\ riskScore = 0
    /\ riskLevel = ""

\* one iteration of `for (const finding of codeFindings)`
ScoreCodeFinding(category, severity) ==
    /\ spc = "code"
    /\ nCode < MaxCodeFindings
    /\ score' = JsAdd(score, CodeFindingWeight(category, severity))
    /\ nCode' = nCode + 1
    /\ lastCategory' = category
    /\ lastSeverity' = severity
    /\ lastAdded' = CodeFindingWeight(category, severity)
    /\ claimedSum' = claimedSum + DocCodeContribution(category, severity)
    /\ onlyEnvLow' = (onlyEnvLow /\ category = "Environment Access" /\ severity = "low")
    /\ UNCHANGED <<spc, nDeps, riskScore, riskLevel>>
    /\ UNCHANGED notScorer

\* the code findings are exhausted
EndCodeFindings ==
    /\ spc = "code"
    /\ spc' = "deps"
    /\ UNCHANGED <<score, nCode, nDeps, lastCategory, lastSeverity, lastAdded,
                   claimedSum, onlyEnvLow, riskScore, riskLevel>>
    /\ UNCHANGED notScorer

\* one iteration of `for (const finding of dependencyFindings)`
ScoreDependencyFinding(severity) ==
    /\ spc = "deps"
    /\ nDeps < MaxDepFindings
    /\ score' = JsAdd(score, DEPENDENCY_SEVERITY_WEIGHTS[severity])
    /\ nDeps' = nDeps + 1
    /\ claimedSum' = claimedSum + DEPENDENCY_SEVERITY_WEIGHTS[severity]
    /\ UNCHANGED <<spc, nCode, lastCategory, lastSeverity, lastAdded, onlyEnvLow,
                   riskScore, riskLevel>>
    /\ UNCHANGED notScorer

\* `return Math.min(score, 100)`, then scan() takes getRiskLevel(riskScore)
ReturnRiskScore ==
    /\ spc = "deps"
    /\ spc' = "done"
    /\ riskScore' = MathMin(score, MaxRiskScore)
    /\ riskLevel' = getRiskLevel(MathMin(score, MaxRiskScore))
    /\ UNCHANGED <<score, nCode, nDeps, lastCategory, lastSeverity, lastAdded,
                   claimedSum, onlyEnvLow>>
    /\ UNCHANGED notScorer

ScorerNext ==
    \/ \E category \in Categories, severity \in RiskSeverity :
           ScoreCodeFinding(category, severity)
    \/ EndCodeFindings
    \/ \E severity \in RiskSeverity : ScoreDependencyFinding(severity)
    \/ ReturnRiskScore

-----------------------------------------------------------------------------
(* getRiskLevel as a function of any score of the range *)

LevelInit ==
    /\ lpc = "input"
    /\ probeA \in 0..MaxRiskScore
    /\ probeB \in 0..MaxRiskScore
    /\ levelA = ""
    /\ levelB = ""

ApplyGetRiskLevel ==
    /\ lpc = "input"
    /\ lpc' = "done"
    /\ levelA' = getRiskLevel(probeA)
    /\ levelB' = getRiskLevel(probeB)
    /\ UNCHANGED <<probeA, probeB>>
    /\ UNCHANGED notLevel

LevelIdle == lpc = "idle" /\ probeA = 0 /\ probeB = 0 /\ levelA = "" /\ levelB = ""

ScorerIdle ==
    /\ spc = "idle" /\ score = 0 /\ nCode = 0 /\ nDeps = 0 /\ lastCategory = ""
    /\ lastSeverity = "" /\ lastAdded = 0 /\ claimedSum = 0 /\ onlyEnvLow = TRUE
    /\ riskScore = 0 /\ riskLevel = ""


-----------------------------------------------------------------------------
(* Strings that the code inspects character by character (package names)   *)
(* are sequences of one-character strings; strings it only compares or     *)
(* concatenates (reasons, CVE ids, versions) are TLA+ strings.             *)

UpperCase == <<"A", "B", "C", "D", "E", "F", "G", "H", "I", "J", "K", "L", "M",
               "N", "O", "P", "Q", "R", "S", "T", "U", "V", "W", "X", "Y", "Z">>
LowerCase == <<"a", "b", "c", "d", "e", "f", "g", "h", "i", "j", "k", "l", "m",
               "n", "o", "p", "q", "r", "s", "t", "u", "v", "w", "x", "y", "z">>

LowerChar(c) ==
    IF \E i \in 1..Len(UpperCase) : UpperCase[i] = c
    THEN LowerCase[CHOOSE i \in 1..Len(UpperCase) : UpperCase[i] = c]
    ELSE c

\* String.prototype.toLowerCase
ToLowerCase(str) == [i \in 1..Len(str) |-> LowerChar(str[i])]

\* str.startsWith(prefix), the regular expression /^prefix/
StartsWith(str, prefix) ==
    Len(str) >= Len(prefix) /\ SubSeq(str, 1, Len(prefix)) = prefix

\* the positions at which word occurs in str
Occurrences(str, word) ==
    {i \in 1..(Len(str) - Len(word) + 1) : SubSeq(str, i, i + Len(word) - 1) = word}

\* the regular expression /word/i
ContainsCI(str, word) == Occurrences(ToLowerCase(str), word) # {}

\* the regular expression /first.*second/i
ContainsInOrderCI(str, first, second) ==
    \E i \in Occurrences(ToLowerCase(str), first) :
        \E j \in Occurrences(ToLowerCase(str), second) : j >= i + Len(first)

-----------------------------------------------------------------------------
(* dependencies.ts *)

THREAT_DATABASE == <<
    [name |-> <<"e", "v", "i", "l", "-", "p", "a", "c", "k", "a", "g", "e">>,
     reason |-> "Known malicious package - contains cryptocurrency miner", severity |-> "critical"],
    [name |-> <<"c", "r", "y", "p", "t", "o", "-", "m", "i", "n", "e", "r">>,
     reason |-> "Cryptocurrency mining malware", severity |-> "critical"],
    [name |-> <<"f", "l", "a", "t", "m", "a", "p", "-", "s", "t", "r", "e", "a", "m">>,
     reason |-> "Compromised package - event-stream incident", severity |-> "critical"],
    [name |-> <<"e", "v", "e", "n", "t", "-", "s", "t", "r", "e", "a", "m">>,
     reason |-> "Compromised package version (historical)", severity |-> "high"],
    [name |-> <<"u", "a", "-", "p", "a", "r", "s", "e", "r", "-", "j", "s">>,
     reason |-> "Previously compromised - check version", severity |-> "high"],
    [name |-> <<"c", "o", "a">>,
     reason |-> "Previously compromised - check version", severity |-> "high"],
    [name |-> <<"r", "c">>,
     reason |-> "Previously compromised - check version", severity |-> "high"],
    [name |-> <<"c", "r", "o", "s", "s", "e", "n", "v">>,
     reason |-> "Typosquatting of cross-env - malicious package", severity |-> "critical"],
    [name |-> <<"c", "r", "o", "s", "s", "-", "e", "n", "v", ".", "j", "s">>,
     reason |-> "Typosquatting of cross-env - malicious package", severity |-> "critical"],
    [name |-> <<"m", "o", "n", "g", "o", "s", "e">>,
     reason |-> "Typosquatting of mongoose - malicious package", severity |-> "critical"],
    [name |-> <<"l", "o", "d", "a", "h", "s">>,
     reason |-> "Typosquatting of lodash - malicious package", severity |-> "critical"],
    [name |-> <<"e", "x", "p", "r", "e", "s", "s", "s">>,
     reason |-> "Typosquatting of express - malicious package", severity |-> "critical"],
    [name |-> <<"h", "a", "c", "k", "-", "t", "o", "o", "l">>,
     reason |-> "Potentially malicious hacking tool", severity |-> "high"],
    [name |-> <<"p", "a", "s", "s", "w", "o", "r", "d", "-", "s", "t", "e", "a", "l", "e", "r">>,
     reason |-> "Suspicious package name - potential credential theft", severity |-> "critical"],
    [name |-> <<"k", "e", "y", "l", "o", "g", "g", "e", "r">>,
     reason |-> "Suspicious package name - potential keylogging", severity |-> "critical"],
    [name |-> <<"b", "a", "c", "k", "d", "o", "o", "r">>,
     reason |-> "Suspicious package name - potential backdoor", severity |-> "critical"],
    [name |-> <<"r", "e", "q", "u", "e", "s", "t">>,
     reason |-> "Deprecated package - consider using node-fetch or axios", severity |-> "low"],
    [name |-> <<"n", "o", "d", "e", "-", "u", "u", "i", "d">>,
     reason |-> "Deprecated - use uuid package instead", severity |-> "low"]
>>

SUSPICIOUS_PATTERNS == <<
    [id |-> "npm-prefix",
     reason |-> "Suspicious package prefix - potential typosquatting", severity |-> "medium"],
    [id |-> "steal",
     reason |-> "Suspicious name - potential data theft", severity |-> "high"],
    [id |-> "keylog",
     reason |-> "Suspicious name - potential keylogging", severity |-> "high"],
    [id |-> "backdoor",
     reason |-> "Suspicious name - potential malware", severity |-> "critical"],
    [id |-> "miner",
     reason |-> "Suspicious name - potential cryptominer", severity |-> "medium"]
>>

\* pattern.test(depName) for the regular expression of each entry
PatternTest(id, depName) ==
    CASE id = "npm-prefix" -> StartsWith(depName, <<"n", "p", "m", "-">>)
      [] id = "steal" -> \/ ContainsCI(depName, <<"s", "t", "e", "a", "l", "e", "r">>)
                         \/ ContainsCI(depName, <<"s", "t", "e", "a", "l">>)
      [] id = "keylog" -> \/ ContainsCI(depName, <<"k", "e", "y", "l", "o", "g">>)
                          \/ ContainsInOrderCI(depName, <<"l", "o", "g", "g", "e", "r">>,
                                               <<"k", "e", "y">>)
      [] id = "backdoor" -> \/ ContainsCI(depName, <<"b", "a", "c", "k", "d", "o", "o", "r">>)
                            \/ ContainsCI(depName, <<"r", "o", "o", "t", "k", "i", "t">>)
                            \/ ContainsCI(depName, <<"t", "r", "o", "j", "a", "n">>)
      [] id = "miner" -> \/ ContainsCI(depName, <<"m", "i", "n", "e", "r">>)
                         \/ ContainsCI(depName, <<"m", "i", "n", "i", "n", "g">>)
                         \/ ContainsCI(depName, <<"c", "o", "i", "n">>)

\* A DependencyFinding: the fields the reconciliation reads
\* ("" stands for an absent cveId or version)
Finding(name, severity, reason, cveId, version, source) ==
    [name |-> name, severity |-> severity, reason |-> reason, cveId |-> cveId,
     version |-> version, source |-> source]

\* A mutant of checkDependency: the patterns are tried before the table
checkDependencyPatternsFirst(depName) ==
    LET threats == {i \in 1..Len(THREAT_DATABASE) :
                       ToLowerCase(THREAT_DATABASE[i].name) = ToLowerCase(depName)}
        matches == {i \in 1..Len(SUSPICIOUS_PATTERNS) :
                       PatternTest(SUSPICIOUS_PATTERNS[i].id, depName)}
        First(S) == CHOOSE i \in S : \A j \in S : i <= j
    IN  IF matches # {}
        THEN <<Finding(depName, SUSPICIOUS_PATTERNS[First(matches)].severity,
                       SUSPICIOUS_PATTERNS[First(matches)].reason, "", "", "pattern")>>
        ELSE IF threats # {}
        THEN <<Finding(depName, THREAT_DATABASE[First(threats)].severity,
                       THREAT_DATABASE[First(threats)].reason, "", "", "threat-db")>>
        ELSE <<>>

\* checkDependency: <<>> for null, else the one finding
checkDependency(depName) ==
    LET threats == {i \in 1..Len(THREAT_DATABASE) :
                       ToLowerCase(THREAT_DATABASE[i].name) = ToLowerCase(depName)}
        matches == {i \in 1..Len(SUSPICIOUS_PATTERNS) :
                       PatternTest(SUSPICIOUS_PATTERNS[i].id, depName)}
        First(S) == CHOOSE i \in S : \A j \in S : i <= j
    IN  IF threats # {}
        THEN <<Finding(depName, THREAT_DATABASE[First(threats)].severity,
                       THREAT_DATABASE[First(threats)].reason, "", "", "threat-db")>>
        ELSE IF matches # {}
        THEN <<Finding(depName, SUSPICIOUS_PATTERNS[First(matches)].severity,
                       SUSPICIOUS_PATTERNS[First(matches)].reason, "", "", "pattern")>>
        ELSE <<>>

\* the loop `for (const dep of dependencies) { checkDependency ... push }`
RECURSIVE CheckAll(_)
CheckAll(deps) ==
    IF deps = <<>> THEN <<>> ELSE checkDependency(Head(deps)) \o CheckAll(Tail(deps))

severityOrder ==
    [s \in RiskSeverity |->
        CASE s = "critical" -> 0 [] s = "high" -> 1 [] s = "medium" -> 2 [] s = "low" -> 3]

\* f put into an ordered list behind every element that does not rank after it
RECURSIVE InsertStable(_, _)
InsertStable(f, sorted) ==
    IF sorted = <<>> THEN <<f>>
    ELSE IF severityOrder[Head(sorted).severity] <= severityOrder[f.severity]
         THEN <<Head(sorted)>> \o InsertStable(f, Tail(sorted))
         ELSE <<f>> \o sorted

\* f put into an ordered list before the elements of its own rank
RECURSIVE InsertBeforeEqual(_, _)
InsertBeforeEqual(f, sorted) ==
    IF sorted = <<>> THEN <<f>>
    ELSE IF severityOrder[Head(sorted).severity] < severityOrder[f.severity]
         THEN <<Head(sorted)>> \o InsertBeforeEqual(f, Tail(sorted))
         ELSE <<f>> \o sorted

RECURSIVE SortInto(_, _)
SortInto(findings, sorted) ==
    IF findings = <<>> THEN sorted
    ELSE SortInto(Tail(findings), InsertStable(Head(findings), sorted))

RECURSIVE SortIntoUnstable(_, _)
SortIntoUnstable(findings, sorted) ==
    IF findings = <<>> THEN sorted
    ELSE SortIntoUnstable(Tail(findings), InsertBeforeEqual(Head(findings), sorted))

\* A mutant of sortFindings: a sort that does not keep the order of equals
sortFindingsUnstable(findings) == SortIntoUnstable(findings, <<>>)

\* findings.sort((a, b) => severityOrder[a.severity] - severityOrder[b.severity]):
\* Array.prototype.sort is stable
sortFindings(findings) == SortInto(findings, <<>>)

\* A JavaScript string used as a deduplication key: `name` alone, or
\* `name` + ':' + `tail` (package names hold no ':')
NameKey(name) == [name |-> name, colon |-> FALSE, tail |-> ""]
ColonKey(name, tail) == [name |-> name, colon |-> TRUE, tail |-> tail]

\* `f.cveId || f.reason`
CveOrReason(f) == IF f.cveId # "" THEN f.cveId ELSE f.reason

\* `${vuln.name.toLowerCase()}:${vuln.cveId || vuln.reason}`
VulnKey(vuln) == ColonKey(ToLowerCase(vuln.name), CveOrReason(vuln))

\* new Set(findings.map((f) => f.name.toLowerCase()))
ExistingKeys(findings) == {NameKey(ToLowerCase(findings[i].name)) : i \in 1..Len(findings)}

\* the loop that adds the vulnerabilities whose key is not in existingKeys
RECURSIVE AddVulnerabilities(_, _, _)
AddVulnerabilities(findings, existingKeys, vulns) ==
    IF vulns = <<>> THEN findings
    ELSE IF VulnKey(Head(vulns)) \in existingKeys
         THEN AddVulnerabilities(findings, existingKeys, Tail(vulns))
         ELSE AddVulnerabilities(Append(findings, Head(vulns)),
                                 existingKeys \cup {VulnKey(Head(vulns))}, Tail(vulns))

-----------------------------------------------------------------------------
(* vulnerabilities.ts: scanVulnerabilities *)

\* `${finding.name}:${finding.cveId || finding.reason}`
MergeKey(finding) == ColonKey(finding.name, CveOrReason(finding))

\* Map.prototype.set on a Map kept as the sequence of its entries in
\* insertion order: an existing key keeps its place and takes the new value
MapSet(map, key, value) ==
    IF \E i \in 1..Len(map) : map[i].key = key
    THEN [i \in 1..Len(map) |-> IF map[i].key = key
                                THEN [key |-> key, value |-> value] ELSE map[i]]
    ELSE Append(map, [key |-> key, value |-> value])

RECURSIVE SetAll(_, _)
SetAll(map, findings) ==
    IF findings = <<>> THEN map
    ELSE SetAll(MapSet(map, MergeKey(Head(findings)), Head(findings)), Tail(findings))

\* Array.from(findingMap.values())
MapValues(map) == [i \in 1..Len(map) |-> map[i].value]

\* the merge of scanVulnerabilities: OSV findings first, npm audit findings over them
MergeFindings(npm, osv) == MapValues(SetAll(SetAll(<<>>, osv), npm))


-----------------------------------------------------------------------------
(* The projects and the data-source answers the model draws from *)

MaxManifestDeps == 2
MaxAuditFindings == 2
MaxOsvFindings == 2

nLodahs == <<"l", "o", "d", "a", "h", "s">>
nLodahsCap == <<"L", "o", "d", "a", "h", "s">>
nRequest == <<"r", "e", "q", "u", "e", "s", "t">>
nLeftPad == <<"l", "e", "f", "t", "-", "p", "a", "d">>

ManifestNames == {nLodahs, nLodahsCap, nRequest, nLeftPad}

\* the sequences of at most n distinct elements of S
DistinctSeqs(S, n) ==
    {q \in UNION {[1..k -> S] : k \in 0..n} :
        \A i, j \in 1..Len(q) : i # j => q[i] # q[j]}

\* findings runNpmAudit can emit (name: a key of the report; reason: the
\* advisory title or the generic text; cveId: taken from the advisory URL)
AuditPool ==
    {Finding(nLodahs, "high", "Command Injection in lodash", "CVE-2021-23337", "",
             "npm-audit"),
     Finding(nLodahs, "critical", "Typosquatting of lodash - malicious package", "", "",
             "npm-audit"),
     Finding(nLeftPad, "low", "Vulnerable package detected", "", "", "npm-audit"),
     Finding(nRequest, "medium", "Server-Side Request Forgery in Request",
             "CVE-2023-28155", "", "npm-audit")}

\* the report's vulnerabilities are the entries of an object: one per name
AuditLists ==
    {q \in DistinctSeqs(AuditPool, MaxAuditFindings) :
        \A i, j \in 1..Len(q) : i # j => q[i].name # q[j].name}

\* findings scanWithOsv can emit (name and version: the package queried;
\* cveId: the CVE alias or the advisory id)
OsvPool ==
    {Finding(nLodahs, "critical", "Command Injection in lodash", "CVE-2021-23337",
             "4.17.20", "osv"),
     Finding(nLodahsCap, "critical", "Command Injection in lodash", "CVE-2021-23337",
             "4.17.20", "osv"),
     Finding(nLeftPad, "medium", "Known vulnerability: GHSA-1", "GHSA-1", "1.3.0", "osv"),
     Finding(nLeftPad, "medium", "Known vulnerability: GHSA-1", "GHSA-1", "1.2.0", "osv")}

OsvLists == DistinctSeqs(OsvPool, MaxOsvFindings)

\* the ways runNpmAudit ends with nothing: the lock file cannot be
\* synthesized, the audit command throws (timeout, buffer), it prints
\* nothing (missing binary, `|| true`), it prints something that is not JSON
AuditFailures == {"lock_synthesis_failed", "audit_threw", "empty_output", "not_json"}

\* the ways scanWithOsv ends without advisories: no request succeeds (it
\* resolves to the empty list); an answer has an unexpected shape and the
\* code that reads it throws (it rejects)
OsvFailures == {"network_error", "bad_shape"}

-----------------------------------------------------------------------------
(* dependencies.ts: inspectDependencies and inspectDependenciesAsync,       *)
(* scanner.ts: scan                                                        *)

DepsInit ==
    /\ dpc = "start"
    /\ called = ""
    /\ hasManifest \in BOOLEAN
    /\ dependencies \in DistinctSeqs(ManifestNames, MaxManifestDeps)
    /\ (~hasManifest => dependencies = <<>>)
    /\ threatFindings = <<>>
    /\ auditOutcome = ""
    /\ npmFindings = <<>>
    /\ osvOutcome = ""
    /\ osvFindings = <<>>
    /\ scanOutcome = ""
    /\ vulnerabilities = <<>>
    /\ produced = <<>>
    /\ depFindings = <<>>
    /\ depRejected = FALSE
    /\ dependencyFindingsCount = -1

\* inspectDependencies (synchronous, threat table only)
InspectDependencies ==
    /\ dpc = "start"
    /\ called' = "sync"
    /\ dpc' = "done"
    /\ threatFindings' = IF hasManifest THEN CheckAll(dependencies) ELSE <<>>
    /\ produced' = threatFindings'
    /\ depFindings' = sortFindings(threatFindings')
    /\ UNCHANGED <<hasManifest, dependencies, auditOutcome, npmFindings, osvOutcome,
                   osvFindings, scanOutcome, vulnerabilities, depRejected,
                   dependencyFindingsCount>>
    /\ UNCHANGED notDeps

\* inspectDependenciesAsync up to the call of scanVulnerabilities
AsyncThreatPass ==
    /\ dpc = "start"
    /\ called' = "async"
    /\ IF hasManifest
       THEN /\ threatFindings' = CheckAll(dependencies)
            /\ dpc' = "audit"
       ELSE /\ threatFindings' = <<>>
            /\ dpc' = "returned"
    /\ UNCHANGED <<hasManifest, dependencies, auditOutcome, npmFindings, osvOutcome,
                   osvFindings, scanOutcome, vulnerabilities, produced, depFindings,
                   depRejected, dependencyFindingsCount>>
    /\ UNCHANGED notDeps

\* runNpmAudit: it has no await and never throws, so it runs to its end
\* when scanVulnerabilities calls it
RunNpmAudit(outcome, findings) ==
    /\ dpc = "audit"
    /\ dpc' = "osv"
    /\ auditOutcome' = outcome
    /\ npmFindings' = IF outcome = "report" THEN findings ELSE <<>>
    /\ UNCHANGED <<called, hasManifest, dependencies, threatFindings, osvOutcome,
                   osvFindings, scanOutcome, vulnerabilities, produced, depFindings,
                   depRejected, dependencyFindingsCount>>
    /\ UNCHANGED notDeps

\* scanWithOsv
ScanWithOsv(outcome, findings) ==
    /\ dpc = "osv"
    /\ dpc' = "merge"
    /\ osvOutcome' = outcome
    /\ osvFindings' = IF outcome = "advisories" THEN findings ELSE <<>>
    /\ UNCHANGED <<called, hasManifest, dependencies, threatFindings, auditOutcome,
                   npmFindings, scanOutcome, vulnerabilities, produced, depFindings,
                   depRejected, dependencyFindingsCount>>
    /\ UNCHANGED notDeps

\* scanVulnerabilities: `await Promise.all([...])` rejects when scanWithOsv
\* rejects; otherwise the two lists are merged
ScanVulnerabilitiesResult(npm, osv, osvEnd) ==
    IF osvEnd = "bad_shape"
    THEN [outcome |-> "rejected", findings |-> <<>>]
    ELSE [outcome |-> "resolved", findings |-> MergeFindings(npm, osv)]

ScanVulnerabilities ==
    /\ dpc = "merge"
    /\ dpc' = "reconcile"
    /\ scanOutcome' = ScanVulnerabilitiesResult(npmFindings, osvFindings, osvOutcome).outcome
    /\ vulnerabilities' =
           ScanVulnerabilitiesResult(npmFindings, osvFindings, osvOutcome).findings
    /\ UNCHANGED <<called, hasManifest, dependencies, threatFindings, auditOutcome,
                   npmFindings, osvOutcome, osvFindings, produced, depFindings,
                   depRejected, dependencyFindingsCount>>
    /\ UNCHANGED notDeps

\* A mutant of AsyncOutcome: the vulnerabilities replace the threat findings
AsyncOutcomeVulnerabilitiesOnly(findings, outcome, vulns) ==
    IF outcome = "rejected" \/ vulns = <<>>
    THEN [rejected |-> FALSE, findings |-> findings]
    ELSE [rejected |-> FALSE, findings |-> vulns]

\* A mutant of AsyncOutcome: no try/catch around the vulnerability scan
AsyncOutcomeNoCatch(findings, outcome, vulns) ==
    IF outcome = "rejected"
    THEN [rejected |-> TRUE, findings |-> <<>>]
    ELSE [rejected |-> FALSE,
          findings |-> AddVulnerabilities(findings, ExistingKeys(findings), vulns)]

\* the try/catch of inspectDependenciesAsync: the vulnerabilities are added
\* unless the scan rejected; nothing escapes
AsyncOutcome(findings, outcome, vulns) ==
    IF outcome = "rejected"
    THEN [rejected |-> FALSE, findings |-> findings]
    ELSE [rejected |-> FALSE,
          findings |-> AddVulnerabilities(findings, ExistingKeys(findings), vulns)]

\* inspectDependenciesAsync from the end of the scan to its return
AsyncReconcile ==
    /\ dpc = "reconcile"
    /\ dpc' = "returned"
    /\ depRejected' = AsyncOutcome(threatFindings, scanOutcome, vulnerabilities).rejected
    /\ produced' = AsyncOutcome(threatFindings, scanOutcome, vulnerabilities).findings
    /\ depFindings' = sortFindings(produced')
    /\ UNCHANGED <<called, hasManifest, dependencies, threatFindings, auditOutcome,
                   npmFindings, osvOutcome, osvFindings, scanOutcome, vulnerabilities,
                   dependencyFindingsCount>>
    /\ UNCHANGED notDeps

\* scan: `dependencyFindingsCount: dependencyFindings.length`, unless the
\* await threw
BuildScanResult ==
    /\ dpc = "returned"
    /\ dpc' = "done"
    /\ dependencyFindingsCount' = IF depRejected THEN -1 ELSE Len(depFindings)
    /\ UNCHANGED <<called, hasManifest, dependencies, threatFindings, auditOutcome,
                   npmFindings, osvOutcome, osvFindings, scanOutcome, vulnerabilities,
                   produced, depFindings, depRejected>>
    /\ UNCHANGED notDeps

DepsNext ==
    \/ InspectDependencies
    \/ AsyncThreatPass
    \/ \E outcome \in AuditFailures : RunNpmAudit(outcome, <<>>)
    \/ \E findings \in AuditLists : RunNpmAudit("report", findings)
    \/ \E outcome \in OsvFailures : ScanWithOsv(outcome, <<>>)
    \/ \E findings \in OsvLists : ScanWithOsv("advisories", findings)
    \/ ScanVulnerabilities
    \/ AsyncReconcile
    \/ BuildScanResult

DepsIdle ==
    /\ dpc = "idle" /\ called = "" /\ hasManifest = FALSE /\ dependencies = <<>>
    /\ threatFindings = <<>> /\ auditOutcome = "" /\ npmFindings = <<>>
    /\ osvOutcome = "" /\ osvFindings = <<>> /\ scanOutcome = ""
    /\ vulnerabilities = <<>> /\ produced = <<>> /\ depFindings = <<>>
    /\ depRejected = FALSE /\ dependencyFindingsCount = -1


-----------------------------------------------------------------------------
(* vulnerabilities.ts: queryOsv and batchQueryOsv *)

MaxBatch == 2

vLodahs == <<"1", ".", "0", ".", "0">>
vLeftPadA == <<"1", ".", "3", ".", "0">>
vLeftPadB == <<"1", ".", "2", ".", "0">>

\* the packages a batch is drawn from; a lock file can hold the same
\* name and version at two paths, so a batch can repeat a package
PackagePool ==
    {[name |-> nLodahs, version |-> vLodahs],
     [name |-> nLeftPad, version |-> vLeftPadA],
     [name |-> nLeftPad, version |-> vLeftPadB]}

Batches == UNION {[1..n -> PackagePool] : n \in 1..MaxBatch}

\* the advisory lists (ids) an answer can carry; <<>> is an answer with an
\* empty or absent `vulns`
AdvisoryLists == {<<>>, <<"GHSA-1">>, <<"GHSA-2">>}

\* how a request can end: "ok" with a usable body; a non-success status;
\* fetch rejecting; a body that is not JSON.  The batch request can also end
\* with a JSON body without `results` ("no_results") or with a `results`
\* list holding a null slot ("bad_slot")
QueryKinds == {"ok", "status", "network", "not_json"}

\* `${pkg.name}@${pkg.version}`
PkgKey(pkg) == pkg.name \o <<"@">> \o pkg.version

\* queryOsv: the advisories of a usable answer, [] for everything else
queryOsv(kind, vulns) == IF kind = "ok" THEN vulns ELSE <<>>

\* `if (vulns.length > 0) results.set(key, vulns)`
StoreAdvisories(map, pkg, vulns) ==
    IF Len(vulns) > 0 THEN MapSet(map, PkgKey(pkg), vulns) ELSE map

\* the loop over data.results, up to (not including) slot `stop`
RECURSIVE StoreSlots(_, _, _, _, _)
StoreSlots(map, pkgs, slots, i, stop) ==
    IF i >= stop \/ i > Len(slots) THEN map
    ELSE StoreSlots(StoreAdvisories(map, pkgs[i], slots[i]), pkgs, slots, i + 1, stop)

\* the batch outcomes after which the individual queries run: the
\* `!response.ok` branch, and the catch (fetch or response.json() rejecting,
\* a TypeError on a null slot)
BatchFallsBack(kind) == kind \in {"status", "network", "not_json", "bad_slot"}

\* A mutant of FallbackPosition: the first failed individual query ends the loop
FallbackPositionAbort(i, n, kind) == IF i = n \/ kind # "ok" THEN "done" ELSE "fallback"

\* where batchQueryOsv stands after the individual query of package i of n
FallbackPosition(i, n, kind) == IF i = n THEN "done" ELSE "fallback"

OsvInit ==
    /\ opc = "start"
    /\ packages \in Batches
    /\ batchKind = ""
    /\ results = <<>>
    /\ individual = <<>>
    /\ requests = 0

\* the batch request and, when it is usable, the loop over its slots;
\* `slots` is the list data.results, `bad` the index of the null slot
BatchRequest(kind, slots, bad) ==
    /\ opc = "start"
    /\ batchKind' = kind
    /\ requests' = requests + 1
    /\ results' = CASE kind = "ok" -> StoreSlots(results, packages, slots, 1, Len(slots) + 1)
                    [] kind = "bad_slot" -> StoreSlots(results, packages, slots, 1, bad)
                    [] OTHER -> results
    /\ opc' = IF BatchFallsBack(kind) THEN "fallback" ELSE "done"
    /\ UNCHANGED <<packages, individual>>
    /\ UNCHANGED notOsv

\* one iteration of the fallback loop: `await queryOsv(pkg.name, pkg.version)`
IndividualQuery(kind, vulns) ==
    /\ opc = "fallback"
    /\ Len(individual) < Len(packages)
    /\ LET i == Len(individual) + 1
       IN  /\ individual' = Append(individual,
                                [pkg |-> i, kind |-> kind, vulns |-> queryOsv(kind, vulns)])
           /\ results' = StoreAdvisories(results, packages[i], queryOsv(kind, vulns))
           /\ opc' = FallbackPosition(i, Len(packages), kind)
    /\ requests' = requests + 1
    /\ UNCHANGED <<packages, batchKind>>
    /\ UNCHANGED notOsv

OsvNext ==
    \/ \E slots \in [1..Len(packages) -> AdvisoryLists] : BatchRequest("ok", slots, 0)
    \/ \E kind \in {"status", "network", "not_json", "no_results"} :
           BatchRequest(kind, <<>>, 0)
    \/ \E slots \in [1..Len(packages) -> AdvisoryLists], bad \in 1..Len(packages) :
           BatchRequest("bad_slot", slots, bad)
    \/ \E vulns \in AdvisoryLists : IndividualQuery("ok", vulns)
    \/ \E kind \in QueryKinds \ {"ok"} : IndividualQuery(kind, <<>>)

OsvIdle ==
    /\ opc = "idle" /\ packages = <<>> /\ batchKind = "" /\ results = <<>>
    /\ individual = <<>> /\ requests = 0

-----------------------------------------------------------------------------
(* vulnerabilities.ts: mapNpmSeverity and runNpmAudit *)

sCritical == <<"c", "r", "i", "t", "i", "c", "a", "l">>
sHigh == <<"h", "i", "g", "h">>
sModerate == <<"m", "o", "d", "e", "r", "a", "t", "e">>
sMedium == <<"m", "e", "d", "i", "u", "m">>
sLow == <<"l", "o", "w">>
sInfo == <<"i", "n", "f", "o">>

\* A mutant of mapNpmSeverity: the switch on the string as it is
mapNpmSeverityCaseSensitive(severity) ==
    CASE severity = sCritical -> "critical"
      [] severity = sHigh -> "high"
      [] severity = sModerate \/ severity = sMedium -> "medium"
      [] severity = sLow \/ severity = sInfo -> "low"
      [] OTHER -> "medium"

\* mapNpmSeverity: the switch on severity.toLowerCase()
mapNpmSeverity(severity) ==
    LET s == ToLowerCase(severity)
    IN  CASE s = sCritical -> "critical"
          [] s = sHigh -> "high"
          [] s = sModerate \/ s = sMedium -> "medium"
          [] s = sLow \/ s = sInfo -> "low"
          [] OTHER -> "medium"

\* severity strings a report can carry
SeverityStrings ==
    {<<"c", "r", "i", "t", "i", "c", "a", "l">>,
     <<"C", "R", "I", "T", "I", "C", "A", "L">>,
     <<"H", "i", "g", "h">>,
     <<"m", "o", "d", "e", "r", "a", "t", "e">>,
     <<"m", "e", "d", "i", "u", "m">>,
     <<"L", "o", "w">>,
     <<"i", "n", "f", "o">>,
     <<"s", "e", "v", "e", "r", "e">>,
     <<>>}

\* the `via` list of a report entry: with an advisory object (title, and
\* the CVE id its url holds, "" for none), with names of other packages
\* only, or absent
ViaOf(name) ==
    CASE name = nLodahs -> [kind |-> "advisory", title |-> "Command Injection in lodash",
                            cve |-> "CVE-2021-23337"]
      [] name = nRequest -> [kind |-> "advisory", title |-> "", cve |-> ""]
      [] OTHER -> [kind |-> "names", title |-> "", cve |-> ""]

MaxReport == 2

\* the entries of auditResult.vulnerabilities: the usual ones, and ones
\* whose `severity` or `via` is missing
ReportEntries ==
    {[name |-> nLodahs, hasSeverity |-> TRUE, severity |-> s, via |-> ViaOf(nLodahs)] :
        s \in SeverityStrings}
    \cup {[name |-> nLeftPad, hasSeverity |-> TRUE, severity |-> s, via |-> ViaOf(nLeftPad)] :
            s \in {sModerate, <<"s", "e", "v", "e", "r", "e">>}}
    \cup {[name |-> nRequest, hasSeverity |-> TRUE, severity |-> sInfo,
           via |-> ViaOf(nRequest)]}
    \cup {[name |-> n, hasSeverity |-> FALSE, severity |-> <<>>, via |-> ViaOf(n)] :
            n \in {nLodahs, nLeftPad}}
    \cup {[name |-> nRequest, hasSeverity |-> TRUE, severity |-> sHigh,
           via |-> [kind |-> "undefined", title |-> "", cve |-> ""]]}

\* Object.entries of the report: one entry per name
Reports ==
    {q \in UNION {[1..k -> ReportEntries] : k \in 0..MaxReport} :
        \A i, j \in 1..Len(q) : i # j => q[i].name # q[j].name}

\* `vuln.via.find(...)` on a missing via, `vuln.severity.toLowerCase()` on a
\* missing severity
EntryThrows(entry) == entry.via.kind = "undefined" \/ ~entry.hasSeverity

\* the object pushed for one entry of the report
AuditFinding(entry) ==
    LET viaDetails == entry.via.kind = "advisory"
        reason == IF viaDetails /\ entry.via.title # ""
                  THEN entry.via.title ELSE "Vulnerable package detected"
        cveId == IF viaDetails THEN entry.via.cve ELSE ""
    IN  Finding(entry.name, mapNpmSeverity(entry.severity), reason, cveId, "", "npm-audit")

\* A mutant of hasLockFile: yarn.lock not looked at
hasLockFileNpmOnly(npmLock, yarn) == npmLock # "absent"

\* `fs.existsSync(packageLockPath) || fs.existsSync(yarnLockPath)`
hasLockFile(npmLock, yarn) == npmLock # "absent" \/ yarn

\* what runNpmAudit returns after an exception in the loop: the catch block
\* is empty and `return findings` follows it
AfterThrow(findings) == findings

\* the ways `npm audit --json` can end without a usable report: execSync
\* throws (timeout, buffer), no output (missing binary, `|| true`), output
\* that is not JSON, the JSON value null, a report without `vulnerabilities`
AuditRuns == {"threw", "empty", "not_json", "null_json", "no_vulnerabilities"}

\* the two command lines runNpmAudit gives to execSync
LockOnlyInstall == "npm install --package-lock-only --ignore-scripts"
AuditCommand == "npm audit --json 2>/dev/null || true"

\* A mutant of AfterSynthesis: the catch block does not return
AfterSynthesisGoesOn(ok) == "audit"

\* where runNpmAudit goes after the lock synthesis: on to the audit, or
\* `return findings` from the catch block
AfterSynthesis(ok) == IF ok THEN "audit" ELSE "returned"

AuditInit ==
    /\ apc = "start"
    /\ manifestExists \in BOOLEAN
    /\ packageLock \in {"absent", "original"}
    /\ yarnLock \in BOOLEAN
    /\ packageLock0 = packageLock
    /\ auditRun = ""
    /\ report = <<>>
    /\ aIdx = 0
    /\ aFindings = <<>>
    /\ aCaught = FALSE
    /\ aResult = <<>>
    /\ execLog = <<>>

\* the checks for package.json and for a lock file
AuditCheckFiles ==
    /\ apc = "start"
    /\ apc' = IF ~manifestExists THEN "returned"
              ELSE IF hasLockFile(packageLock, yarnLock) THEN "audit"
              ELSE "synthesize"
    /\ UNCHANGED <<manifestExists, packageLock, yarnLock, packageLock0, auditRun, report,
                   aIdx, aFindings, aCaught, aResult, execLog>>
    /\ UNCHANGED notAudit

\* `npm install --package-lock-only --ignore-scripts`: it writes
\* package-lock.json, or throws
SynthesizeLock(ok) ==
    /\ apc = "synthesize"
    /\ packageLock' = IF ok THEN "synthesized" ELSE packageLock
    /\ apc' = AfterSynthesis(ok)
    /\ execLog' = Append(execLog, LockOnlyInstall)
    /\ UNCHANGED <<manifestExists, yarnLock, packageLock0, auditRun, report, aIdx,
                   aFindings, aCaught, aResult>>
    /\ UNCHANGED notAudit

\* `npm audit --json` and JSON.parse of its output
RunAuditCommand(outcome, entries) ==
    /\ apc = "audit"
    /\ auditRun' = outcome
    /\ report' = IF outcome = "report" THEN entries ELSE <<>>
    /\ apc' = IF outcome = "report" THEN "loop" ELSE "returned"
    /\ aCaught' = (outcome \in {"threw", "not_json", "null_json"})
    /\ execLog' = Append(execLog, AuditCommand)
    /\ UNCHANGED <<manifestExists, packageLock, yarnLock, packageLock0, aIdx, aFindings,
                   aResult>>
    /\ UNCHANGED notAudit

\* one iteration of the loop over the report's entries
ProcessEntry ==
    /\ apc = "loop"
    /\ aIdx < Len(report)
    /\ IF EntryThrows(report[aIdx + 1])
       THEN /\ aCaught' = TRUE
            /\ apc' = "returned"
            /\ aResult' = AfterThrow(aFindings)
            /\ UNCHANGED <<aIdx, aFindings>>
       ELSE /\ aFindings' = Append(aFindings, AuditFinding(report[aIdx + 1]))
            /\ aIdx' = aIdx + 1
            /\ UNCHANGED <<apc, aCaught, aResult>>
    /\ UNCHANGED <<manifestExists, packageLock, yarnLock, packageLock0, auditRun, report,
                   execLog>>
    /\ UNCHANGED notAudit

\* `return findings` after the loop
AuditReturn ==
    /\ apc = "loop"
    /\ aIdx = Len(report)
    /\ apc' = "returned"
    /\ aResult' = aFindings
    /\ UNCHANGED <<manifestExists, packageLock, yarnLock, packageLock0, auditRun, report,
                   aIdx, aFindings, aCaught, execLog>>
    /\ UNCHANGED notAudit

AuditNext ==
    \/ AuditCheckFiles
    \/ \E ok \in BOOLEAN : SynthesizeLock(ok)
    \/ \E outcome \in AuditRuns : RunAuditCommand(outcome, <<>>)
    \/ \E entries \in Reports : RunAuditCommand("report", entries)
    \/ ProcessEntry
    \/ AuditReturn

AuditIdle ==
    /\ apc = "idle" /\ manifestExists = FALSE /\ packageLock = "absent"
    /\ yarnLock = FALSE /\ packageLock0 = "absent" /\ auditRun = "" /\ report = <<>>
    /\ aIdx = 0 /\ aFindings = <<>> /\ aCaught = FALSE /\ aResult = <<>>
    /\ execLog = <<>>

-----------------------------------------------------------------------------
(* vulnerabilities.ts: parseLockFile, parsePackageJson and the package    *)
(* list of scanWithOsv; dependencies.ts: getAllDependencies                *)

MaxLockEntries == 2
MaxTreeNodes == 3
MaxManifestEntries == 2

NodeModules == <<"n", "o", "d", "e", "_", "m", "o", "d", "u", "l", "e", "s", "/">>

\* the last position at which word occurs in str (0: nowhere)
LastOccurrence(str, word) ==
    IF Occurrences(str, word) = {} THEN 0
    ELSE CHOOSE i \in Occurrences(str, word) : \A j \in Occurrences(str, word) : j <= i

\* pkgPath.replace(/^node_modules\//, '').replace(/.*node_modules\//, '')
PathName(pkgPath) ==
    LET first == IF StartsWith(pkgPath, NodeModules)
                 THEN SubSeq(pkgPath, Len(NodeModules) + 1, Len(pkgPath))
                 ELSE pkgPath
        last == LastOccurrence(first, NodeModules)
    IN  IF last = 0 THEN first
        ELSE SubSeq(first, last + Len(NodeModules), Len(first))

\* a PackageRef
PackageRef(name, version, isDev) == [name |-> name, version |-> version, isDev |-> isDev]

pRoot == <<>>
pLodahs == NodeModules \o nLodahs
pNestedLeftPad == NodeModules \o nRequest \o <<"/">> \o NodeModules \o nLeftPad

\* entries of the `packages` object of a lock file (lockfileVersion >= 2):
\* the root, a top-level package, a nested dev package, a link without version
FlatEntries ==
    {[path |-> pRoot, hasVersion |-> TRUE, version |-> vLodahs, dev |-> FALSE],
     [path |-> pLodahs, hasVersion |-> TRUE, version |-> vLodahs, dev |-> FALSE],
     [path |-> pNestedLeftPad, hasVersion |-> TRUE, version |-> vLeftPadA, dev |-> TRUE],
     [path |-> pLodahs, hasVersion |-> FALSE, version |-> <<>>, dev |-> FALSE]}

\* Object.entries of `packages`: one entry per path
FlatLocks ==
    {q \in UNION {[1..k -> FlatEntries] : k \in 0..MaxLockEntries} :
        \A i, j \in 1..Len(q) : i # j => q[i].path # q[j].path}

\* the `dependencies` tree of a lock file (lockfileVersion 1): node i hangs
\* under node parent[i] (0: the top level), entries in the order of their
\* numbers; dev[i] is its `dev` flag, hasVersion[i] whether it has a version
Trees ==
    UNION {{[n |-> k, parent |-> pa, dev |-> d, hasVersion |-> h] :
               pa \in {f \in [1..k -> 0..k] : \A i \in 1..k : f[i] < i},
               d \in [1..k -> BOOLEAN], h \in [1..k -> BOOLEAN]} :
           k \in 0..MaxTreeNodes}

EmptyTree == [n |-> 0, parent |-> <<>>, dev |-> <<>>, hasVersion |-> <<>>]

\* the name and the version of node i of a tree
TreeNames == <<nLodahs, nLeftPad, nRequest, nLodahsCap, nLodahs, nLeftPad>>
TreeName(i) == TreeNames[((i - 1) % Len(TreeNames)) + 1]
TreeVersion(i) == vLodahs

\* package-lock.json: absent, not JSON, with `packages`, with `dependencies`
\* only, with neither
LockFiles ==
    {[kind |-> k, entries |-> <<>>, tree |-> EmptyTree] : k \in {"absent", "not_json", "other"}}
    \cup {[kind |-> "flat", entries |-> q, tree |-> EmptyTree] : q \in FlatLocks}
    \cup {[kind |-> "nested", entries |-> <<>>, tree |-> tr] : tr \in Trees}

\* the loop over Object.entries(lockData.packages)
RECURSIVE FlatRefs(_)
FlatRefs(entries) ==
    IF entries = <<>> THEN <<>>
    ELSE LET e == Head(entries)
         IN  (IF e.path # <<>> /\ e.hasVersion /\ PathName(e.path) # <<>>
              THEN <<PackageRef(PathName(e.path), e.version, e.dev)>>
              ELSE <<>>) \o FlatRefs(Tail(entries))

\* A mutant of ChildDev: only the entry's own flag is handed down
ChildDevOwnOnly(dev, isDev) == dev

\* `info.dev || isDev`: the flag of an entry and of the call for its children
ChildDev(dev, isDev) == dev \/ isDev

\* extractDeps of parseLockFile over the entries under node p, from entry i on
RECURSIVE ExtractFrom(_, _, _, _)
ExtractFrom(tree, p, isDev, i) ==
    IF i > tree.n THEN <<>>
    ELSE (IF tree.parent[i] = p
          THEN (IF tree.hasVersion[i]
                THEN <<PackageRef(TreeName(i), TreeVersion(i), ChildDev(tree.dev[i], isDev))>>
                ELSE <<>>)
               \o ExtractFrom(tree, i, ChildDev(tree.dev[i], isDev), 1)
          ELSE <<>>)
         \o ExtractFrom(tree, p, isDev, i + 1)

\* parseLockFile
parseLockFile(lock) ==
    CASE lock.kind = "flat" -> FlatRefs(lock.entries)
      [] lock.kind = "nested" -> ExtractFrom(lock.tree, 0, FALSE, 1)
      [] OTHER -> <<>>

\* the characters /^[\^~>=<]*/ removes
RangeOperatorChars == {"^", "~", ">", "=", "<"}

\* versionRange.replace(/^[\^~>=<]*/g, '')
RECURSIVE StripOperators(_)
StripOperators(str) ==
    IF str # <<>> /\ Head(str) \in RangeOperatorChars
    THEN StripOperators(Tail(str)) ELSE str

\* str.split(' ')[0]
RECURSIVE FirstToken(_)
FirstToken(str) ==
    IF str = <<>> \/ Head(str) = " " THEN <<>>
    ELSE <<Head(str)>> \o FirstToken(Tail(str))

\* the version parsePackageJson.extractDeps gives for a range
CleanVersion(rangeString) == FirstToken(StripOperators(rangeString))

Sections == <<"dependencies", "devDependencies", "peerDependencies", "optionalDependencies">>

SectionIndex(s) == CHOOSE i \in 1..Len(Sections) : Sections[i] = s

rCaret == <<"^", "4", ".", "1", "7", ".", "2", "1">>

\* the declarations of a manifest: [section, name, range], listed section by
\* section in the order extractDeps is called, one declaration per name in a
\* section
ManifestEntries ==
    {[section |-> s, name |-> n, range |-> r] :
        s \in {Sections[i] : i \in 1..Len(Sections)}, n \in {nLodahs, nLeftPad},
        r \in {rCaret}}

ManifestLists ==
    {q \in UNION {[1..k -> ManifestEntries] : k \in 0..MaxManifestEntries} :
        \A i, j \in 1..Len(q) :
            i < j => /\ SectionIndex(q[i].section) <= SectionIndex(q[j].section)
                     /\ (q[i].section = q[j].section => q[i].name # q[j].name)}

\* package.json: absent, not JSON, or an object with its declarations
ManifestFiles ==
    {[kind |-> k, entries |-> <<>>] : k \in {"absent", "not_json"}}
    \cup {[kind |-> "object", entries |-> q] : q \in ManifestLists}

\* parsePackageJson: the four extractDeps calls
parsePackageJson(manifest) ==
    [i \in 1..Len(manifest.entries) |->
        PackageRef(manifest.entries[i].name, CleanVersion(manifest.entries[i].range),
                   manifest.entries[i].section = "devDependencies")]

\* getAllDependencies: the names added to a Set, in the order of insertion
RECURSIVE AddNames(_, _)
AddNames(deps, entries) ==
    IF entries = <<>> THEN deps
    ELSE AddNames(IF \E i \in 1..Len(deps) : deps[i] = Head(entries).name
                  THEN deps ELSE Append(deps, Head(entries).name),
                  Tail(entries))

getAllDependencies(manifest) == AddNames(<<>>, manifest.entries)

NoFile == [kind |-> "absent", entries |-> <<>>]

PkgInit ==
    /\ kpc = "start"
    /\ lockFile = [kind |-> "absent", entries |-> <<>>, tree |-> EmptyTree]
    /\ lockRefs = <<>>
    /\ manifestFile = NoFile
    /\ usedManifest = FALSE
    /\ queried = <<>>

\* scanWithOsv: `let packages = parseLockFile(targetDir)`
ParseLockFile(lock) ==
    /\ kpc = "start"
    /\ lockFile' = lock
    /\ lockRefs' = parseLockFile(lock)
    /\ queried' = lockRefs'
    /\ kpc' = IF Len(lockRefs') = 0 THEN "fallback" ELSE "selected"
    /\ UNCHANGED <<manifestFile, usedManifest>>
    /\ UNCHANGED notPkg

\* scanWithOsv: `if (packages.length === 0) packages = parsePackageJson(targetDir)`
ParsePackageJson(manifest) ==
    /\ kpc = "fallback"
    /\ manifestFile' = manifest
    /\ usedManifest' = TRUE
    /\ queried' = parsePackageJson(manifest)
    /\ kpc' = "selected"
    /\ UNCHANGED <<lockFile, lockRefs>>
    /\ UNCHANGED notPkg

PkgNext ==
    \/ \E lock \in LockFiles : ParseLockFile(lock)
    \/ \E manifest \in ManifestFiles : ParsePackageJson(manifest)

PkgIdle ==
    /\ kpc = "idle"
    /\ lockFile = [kind |-> "absent", entries |-> <<>>, tree |-> EmptyTree]
    /\ lockRefs = <<>> /\ manifestFile = NoFile /\ usedManifest = FALSE
    /\ queried = <<>>

-----------------------------------------------------------------------------
(* vulnerabilities.ts: the version cleaning of parsePackageJson.extractDeps *)

\* the operators of a comparator (<<>>: none)
RangeOperators == {<<>>, <<"^">>, <<"~">>, <<">", "=">>, <<"<", "=">>, <<">">>, <<"<">>}

\* semver allows white space between an operator and its version
RangeGaps == {<<>>, <<" ">>}

RangeVersions == {<<"4", ".", "1", "7", ".", "2", "1">>, <<"1", ".", "0", ".", "0">>}

\* what can follow the first comparator: nothing, a second comparator, an
\* alternative
RangeRests == {<<>>, <<" ", "<", "5", ".", "0", ".", "0">>, <<" ", "|", "|", " ", "^", "5", ".", "0", ".", "0">>}

RangeInit ==
    /\ rpc = "start"
    /\ rOperator \in RangeOperators
    /\ rGap \in RangeGaps
    /\ (rOperator = <<>> => rGap = <<>>)
    /\ rVersion \in RangeVersions
    /\ rRest \in RangeRests
    /\ versionRange = rOperator \o rGap \o rVersion \o rRest
    /\ cleaned = <<>>

\* extractDeps on one declaration of the manifest
CleanRange ==
    /\ rpc = "start"
    /\ rpc' = "done"
    /\ cleaned' = CleanVersion(versionRange)
    /\ UNCHANGED <<rOperator, rGap, rVersion, rRest, versionRange>>
    /\ UNCHANGED notRange

RangeNext == CleanRange

RangeIdle ==
    /\ rpc = "idle" /\ rOperator = <<>> /\ rGap = <<>> /\ rVersion = <<>>
    /\ rRest = <<>> /\ versionRange = <<>> /\ cleaned = <<>>

-----------------------------------------------------------------------------
(* vulnerabilities.ts: mapCvssToSeverity and the severity scanWithOsv      *)
(* gives a finding.  Scores are counted in tenths.                         *)

\* mapCvssToSeverity
mapCvssToSeverity(cvss) ==
    IF cvss >= 90 THEN "critical"
    ELSE IF cvss >= 70 THEN "high"
    ELSE IF cvss >= 40 THEN "medium"
    ELSE "low"

Digits == <<"0", "1", "2", "3", "4", "5", "6", "7", "8", "9">>

IsDigit(c) == \E i \in 1..Len(Digits) : Digits[i] = c

DigitValue(c) == (CHOOSE i \in 1..Len(Digits) : Digits[i] = c) - 1

\* the decimal digits of a natural number
RECURSIVE NumberString(_)
NumberString(n) ==
    IF n < 10 THEN <<Digits[n + 1]>> ELSE NumberString(n \div 10) \o <<Digits[(n % 10) + 1]>>

\* a score of t tenths written as a decimal number: 98 is "9.8"
ScoreString(t) == NumberString(t \div 10) \o <<".">> \o NumberString(t % 10)

\* how many digits stand at position i of str and after it
RECURSIVE DigitRun(_, _)
DigitRun(str, i) ==
    IF i > Len(str) \/ ~IsDigit(str[i]) THEN 0 ELSE 1 + DigitRun(str, i + 1)

\* the value of the n digits of str from position i on
RECURSIVE DigitsValue(_, _, _)
DigitsValue(str, i, n) ==
    IF n = 0 THEN 0
    ELSE DigitsValue(str, i, n - 1) * 10 + DigitValue(str[i + n - 1])

\* parseFloat of the first match of /(\d+\.?\d*)/ in str, in tenths (-1: no
\* match); the strings of the model have at most one decimal
FirstNumber(str) ==
    LET starts == {i \in 1..Len(str) : IsDigit(str[i])}
    IN  IF starts = {} THEN -1
        ELSE LET s == CHOOSE i \in starts : \A j \in starts : i <= j
                 n == DigitRun(str, s)
                 dot == s + n
                 whole == DigitsValue(str, s, n)
             IN  IF dot <= Len(str) /\ str[dot] = "." /\ DigitRun(str, dot + 1) > 0
                 THEN whole * 10 + DigitValue(str[dot + 1])
                 ELSE whole * 10

\* the CVSS base scores, in tenths
CvssScores == 0..100

AdvisoryFormats == {"none", "other_type", "number", "vector30", "vector31"}

\* CVSS vectors; the metrics after the version hold no digit
Vector30 == <<"C", "V", "S", "S", ":", "3", ".", "0", "/", "A", "V", ":", "N", "/", "A", "C", ":", "L", "/", "P", "R", ":", "N", "/", "U", "I", ":", "N", "/", "S", ":", "U", "/", "C", ":", "H", "/", "I", ":", "H", "/", "A", ":", "H">>
Vector31 == <<"C", "V", "S", "S", ":", "3", ".", "1", "/", "A", "V", ":", "N", "/", "A", "C", ":", "L", "/", "P", "R", ":", "N", "/", "U", "I", ":", "N", "/", "S", ":", "U", "/", "C", ":", "H", "/", "I", ":", "H", "/", "A", ":", "H">>

\* the `score` of the advisory's CVSS_V3 entry
AdvisoryScore(format, base) ==
    CASE format = "number" -> ScoreString(base)
      [] format = "vector30" -> Vector30
      [] format = "vector31" -> Vector31
      [] OTHER -> <<>>

\* the `cvssScore` and `severity` scanWithOsv computes for an advisory
OsvSeverity(scoreStr) ==
    IF scoreStr # <<>> /\ FirstNumber(scoreStr) # -1
    THEN [cvssScore |-> FirstNumber(scoreStr),
          severity |-> mapCvssToSeverity(FirstNumber(scoreStr))]
    ELSE [cvssScore |-> -1, severity |-> "medium"]

CvssInit ==
    /\ cpc = "start"
    /\ advFormat \in AdvisoryFormats
    /\ advBase \in CvssScores
    /\ advScore = AdvisoryScore(advFormat, advBase)
    /\ cvssScore = -1
    /\ osvSeverity = ""

\* scanWithOsv on one advisory, up to findings.push
ClassifyAdvisory ==
    /\ cpc = "start"
    /\ cpc' = "done"
    /\ cvssScore' = OsvSeverity(advScore).cvssScore
    /\ osvSeverity' = OsvSeverity(advScore).severity
    /\ UNCHANGED <<advFormat, advBase, advScore>>
    /\ UNCHANGED notCvss

CvssNext == ClassifyAdvisory

CvssIdle ==
    /\ cpc = "idle" /\ advFormat = "none" /\ advBase = 0 /\ advScore = <<>>
    /\ cvssScore = -1 /\ osvSeverity = ""

-----------------------------------------------------------------------------
(* dependencies.ts: checkDependency applied to one package name *)

UpperChar(c) ==
    IF \E i \in 1..Len(LowerCase) : LowerCase[i] = c
    THEN UpperCase[CHOOSE i \in 1..Len(LowerCase) : LowerCase[i] = c]
    ELSE c

\* the spellings of a name: as it is, with a capital first letter, in capitals
Spellings(name) ==
    {name,
     <<UpperChar(Head(name))>> \o Tail(name),
     [i \in 1..Len(name) |-> UpperChar(name[i])]}

\* names that are in no table and match no pattern
PlainNames == {nLeftPad, <<"e", "x", "p", "r", "e", "s", "s">>, <<"l", "o", "d", "a", "s", "h">>, <<"u", "u", "i", "d">>}

\* names that are in no table and match a pattern
PatternNames == {<<"c", "o", "i", "n", "-", "s", "t", "e", "a", "l", "e", "r">>, <<"m", "y", "-", "k", "e", "y", "l", "o", "g">>, <<"r", "o", "o", "t", "k", "i", "t">>, <<"b", "i", "t", "c", "o", "i", "n", "-", "m", "i", "n", "i", "n", "g">>, <<"n", "p", "m", "-", "b", "a", "c", "k", "d", "o", "o", "r", "-", "t", "r", "o", "j", "a", "n">>}

\* the names checkDependency is applied to, each with the THREAT_DATABASE
\* entry it spells (0: none)
CheckedNames ==
    UNION {{[name |-> n, base |-> i] : n \in Spellings(THREAT_DATABASE[i].name)} :
              i \in 1..Len(THREAT_DATABASE)}
    \cup {[name |-> <<"n", "p", "m", "-">> \o THREAT_DATABASE[i].name, base |-> 0] :
            i \in 1..Len(THREAT_DATABASE)}
    \cup {[name |-> n, base |-> 0] : n \in PlainNames \cup PatternNames}

ThreatInit ==
    /\ tpc = "start"
    /\ \E c \in CheckedNames : checkedName = c.name /\ tBase = c.base
    /\ tResult = <<>>

\* checkDependency(depName)
CheckDependency ==
    /\ tpc = "start"
    /\ tpc' = "done"
    /\ tResult' = checkDependency(checkedName)
    /\ UNCHANGED <<checkedName, tBase>>
    /\ UNCHANGED notThreat

ThreatNext == CheckDependency

ThreatIdle == tpc = "idle" /\ checkedName = <<>> /\ tBase = 0 /\ tResult = <<>>

-----------------------------------------------------------------------------
(* dependencies.ts: inspectDependenciesAsync, from the project's files to  *)
(* the list it returns                                                     *)

\* the lock files of the projects looked at here
MatcherLocks == {l \in LockFiles : l.kind \in {"absent", "flat"}}

\* what scanVulnerabilities resolves to: nothing, or one finding
MatcherVulnerabilities == {<<>>} \cup {<<f>> : f \in AuditPool}

MatcherInit ==
    /\ mpc = "start"
    /\ mLock \in MatcherLocks
    /\ mManifest \in ManifestFiles
    /\ mFindings = <<>>

\* readPackageJson, getAllDependencies and the loop over checkDependency
MatcherThreatPass ==
    /\ mpc = "start"
    /\ IF mManifest.kind = "object"
       THEN /\ mFindings' = CheckAll(getAllDependencies(mManifest))
            /\ mpc' = "scan"
       ELSE /\ mFindings' = <<>>
            /\ mpc' = "returned"
    /\ UNCHANGED <<mLock, mManifest>>
    /\ UNCHANGED notMatcher

\* the try/catch around scanVulnerabilities, and the final sort
MatcherReconcile(outcome, vulns) ==
    /\ mpc = "scan"
    /\ mpc' = "returned"
    /\ mFindings' = sortFindings(AsyncOutcome(mFindings, outcome, vulns).findings)
    /\ UNCHANGED <<mLock, mManifest>>
    /\ UNCHANGED notMatcher

MatcherNext ==
    \/ MatcherThreatPass
    \/ \E vulns \in MatcherVulnerabilities : MatcherReconcile("resolved", vulns)
    \/ MatcherReconcile("rejected", <<>>)

MatcherIdle ==
    /\ mpc = "idle"
    /\ mLock = [kind |-> "absent", entries |-> <<>>, tree |-> EmptyTree]
    /\ mManifest = NoFile /\ mFindings = <<>>

-----------------------------------------------------------------------------
(* vulnerabilities.ts: the merge step of scanVulnerabilities, applied to   *)
(* one list given as both the OSV list and the audit list                  *)

MaxMergeList == 2

\* finding lists of either source, repetitions included
MergeLists == UNION {[1..k -> AuditPool \cup OsvPool] : k \in 0..MaxMergeList}

MergeInit ==
    /\ gpc = "start"
    /\ mergeList \in MergeLists
    /\ mergedOnce = <<>>
    /\ mergedTwice = <<>>

\* the two loops over findingMap and `Array.from(findingMap.values())`
MergeWithItself ==
    /\ gpc = "start"
    /\ gpc' = "merged"
    /\ mergedOnce' = MergeFindings(mergeList, mergeList)
    /\ UNCHANGED <<mergeList, mergedTwice>>
    /\ UNCHANGED notMerge

\* the same step on its own result
MergeAgain ==
    /\ gpc = "merged"
    /\ gpc' = "again"
    /\ mergedTwice' = MergeFindings(mergedOnce, mergedOnce)
    /\ UNCHANGED <<mergeList, mergedOnce>>
    /\ UNCHANGED notMerge

MergeNext == MergeWithItself \/ MergeAgain

MergeIdle == gpc = "idle" /\ mergeList = <<>> /\ mergedOnce = <<>> /\ mergedTwice = <<>>

-----------------------------------------------------------------------------
(* analyzers/index.ts: analyzeFile; analyzers/go.analyzer.ts and           *)
(* analyzers/rust.analyzer.ts: the pattern loop of analyzeFile             *)

\* A source text is a sequence of lines and a line a sequence of lexemes;
\* white space between two lexemes is what \s* of the patterns skips. Each
\* regular expression is given by the lexeme sequences it matches.
GO_PATTERNS == <<
    [name |-> "exec.Command", severity |-> "critical", category |-> "Shell Execution",
     matches |-> {<<"exec.Command", "(">>}],
    [name |-> "syscall.Exec", severity |-> "critical", category |-> "Shell Execution",
     matches |-> {<<"syscall.Exec", "(">>, <<"syscall.ForkExec", "(">>}],
    [name |-> "eval package", severity |-> "critical", category |-> "Code Injection",
     matches |-> {<<"eval.">>}],
    [name |-> "os.WriteFile", severity |-> "high", category |-> "File System Write",
     matches |-> {<<"os.WriteFile", "(">>, <<"os.Create", "(">>, <<"os.OpenFile", "(">>}],
    [name |-> "os.Remove", severity |-> "high", category |-> "File System Delete",
     matches |-> {<<"os.Remove", "(">>, <<"os.RemoveAll", "(">>}],
    [name |-> "os.Chmod", severity |-> "high", category |-> "File System Permissions",
     matches |-> {<<"os.Chmod", "(">>, <<"os.Chown", "(">>}],
    [name |-> "unsafe package", severity |-> "high", category |-> "Unsafe Operations",
     matches |-> {<<"import", "\"unsafe\"">>, <<"unsafe.">>}],
    [name |-> "reflect package", severity |-> "high", category |-> "Reflection",
     matches |-> {<<"reflect.">>}],
    [name |-> "http.Get", severity |-> "medium", category |-> "Network Access",
     matches |-> {<<"http.Get", "(">>, <<"http.Post", "(">>, <<"http.Head", "(">>,
                  <<"http.Put", "(">>, <<"http.Delete", "(">>}],
    [name |-> "net.Dial", severity |-> "medium", category |-> "Network Access",
     matches |-> {<<"net.Dial", "(">>, <<"net.DialTCP", "(">>, <<"net.DialUDP", "(">>}],
    [name |-> "url.Parse", severity |-> "medium", category |-> "Network Access",
     matches |-> {<<"url.Parse", "(">>}],
    \* the string literal stands for any name that matches [A-Z_]*(KEY|SECRET|...)
    [name |-> "os.Getenv", severity |-> "low", category |-> "Environment Access",
     matches |-> {<<"os.Getenv", "(", "\"API_KEY">>}]
>>

RUST_PATTERNS == <<
    [name |-> "unsafe block", severity |-> "critical", category |-> "Unsafe Code",
     matches |-> {<<"unsafe", "{">>}],
    [name |-> "Command::new", severity |-> "critical", category |-> "Shell Execution",
     matches |-> {<<"Command::new", "(">>}],
    [name |-> "fs::write", severity |-> "high", category |-> "File System Write",
     matches |-> {<<"fs::write">>, <<"fs::File::create">>, <<"fs::OpenOptions">>}],
    [name |-> "fs::remove", severity |-> "high", category |-> "File System Delete",
     matches |-> {<<"fs::remove_file", "(">>, <<"fs::remove_dir", "(">>,
                  <<"fs::remove_dir_all", "(">>}],
    [name |-> "transmute", severity |-> "high", category |-> "Type Casting",
     matches |-> {<<"transmute", "<">>}],
    \* the word after the qualifier stands for any \w+
    [name |-> "raw pointers", severity |-> "high", category |-> "Unsafe Pointers",
     matches |-> {<<"*const", "u8">>, <<"*mut", "u8">>}],
    [name |-> "TcpStream", severity |-> "medium", category |-> "Network Access",
     matches |-> {<<"TcpStream::connect">>, <<"TcpStream::bind">>}],
    [name |-> "reqwest", severity |-> "medium", category |-> "Network Access",
     matches |-> {<<"reqwest::get">>, <<"reqwest::post">>, <<"reqwest::Client">>}],
    [name |-> "hyper", severity |-> "medium", category |-> "Network Access",
     matches |-> {<<"hyper::">>}],
    [name |-> "env::var", severity |-> "low", category |-> "Environment Access",
     matches |-> {<<"env::var", "(", "\"API_KEY">>}]
>>

\* the analyzers of the registry whose source is at hand, in registry order
ANALYZERS == <<
    [language |-> "go", fileExtensions |-> {<<".", "g", "o">>}, patterns |-> GO_PATTERNS],
    [language |-> "rust", fileExtensions |-> {<<".", "r", "s">>}, patterns |-> RUST_PATTERNS]
>>

\* str.endsWith(suffix)
EndsWith(str, suffix) ==
    Len(str) >= Len(suffix) /\ SubSeq(str, Len(str) - Len(suffix) + 1, Len(str)) = suffix

\* canAnalyze: `this.fileExtensions.some((ext) => filePath.endsWith(ext))`
canAnalyze(analyzer, filePath) == \E ext \in analyzer.fileExtensions : EndsWith(filePath, ext)

\* getAnalyzerForFile: the index of the first analyzer that can analyze the
\* file, 0 for null
getAnalyzerForFile(filePath) ==
    IF \E i \in 1..Len(ANALYZERS) : canAnalyze(ANALYZERS[i], filePath)
    THEN CHOOSE i \in 1..Len(ANALYZERS) :
             /\ canAnalyze(ANALYZERS[i], filePath)
             /\ \A j \in 1..(i - 1) : ~canAnalyze(ANALYZERS[j], filePath)
    ELSE 0

\* the elements of a set of numbers in ascending order
RECURSIVE Ascending(_)
Ascending(S) ==
    IF S = {} THEN <<>>
    ELSE LET m == CHOOSE x \in S : \A y \in S : x <= y
         IN <<m>> \o Ascending(S \ {m})

\* the `while ((match = pattern.pattern.exec(source)) !== null)` loop: one
\* finding per match of the pattern, in the order of the text, from line n on
RECURSIVE PatternFindings(_, _, _, _)
PatternFindings(pattern, language, lines, n) ==
    IF n > Len(lines) THEN <<>>
    ELSE LET at == Ascending(UNION {Occurrences(lines[n], m) : m \in pattern.matches})
         IN [k \in 1..Len(at) |->
                [line |-> n, column |-> at[k] - 1, severity |-> pattern.severity,
                 category |-> pattern.category, language |-> language]]
            \o PatternFindings(pattern, language, lines, n + 1)

\* A mutant of AnalyzerFindings: the loop over the patterns stops at the
\* first pattern that matched
RECURSIVE AnalyzerFindingsFirstPattern(_, _, _, _)
AnalyzerFindingsFirstPattern(patterns, language, lines, p) ==
    IF p > Len(patterns) THEN <<>>
    ELSE IF PatternFindings(patterns[p], language, lines, 1) # <<>>
         THEN PatternFindings(patterns[p], language, lines, 1)
         ELSE AnalyzerFindingsFirstPattern(patterns, language, lines, p + 1)

\* `for (const pattern of GO_PATTERNS)`: the findings of pattern p and of the
\* patterns after it, in the order of the pattern list
RECURSIVE AnalyzerFindings(_, _, _, _)
AnalyzerFindings(patterns, language, lines, p) ==
    IF p > Len(patterns) THEN <<>>
    ELSE PatternFindings(patterns[p], language, lines, 1)
         \o AnalyzerFindings(patterns, language, lines, p + 1)

\* analyzeFile of the registry, then analyzeFile of the analyzer it picked:
\* no analyzer and a file that cannot be read both give the empty list
analyzeFile(filePath, readable, lines) ==
    LET a == getAnalyzerForFile(filePath)
    IN IF a = 0 THEN <<>>
       ELSE IF ~readable THEN <<>>
       ELSE AnalyzerFindings(ANALYZERS[a].patterns, ANALYZERS[a].language, lines, 1)

MaxSourceLines == 2

\* lines of Go and Rust programs: calls that run a command, other risky
\* constructs, a name that is mentioned and not called, harmless statements
SourceLinePool ==
    {<<"exec.Command", "(", "\"sh\"", ")">>,
     <<"syscall.Exec", "(", "path", ")">>,
     <<"os.Remove", "(", "path", ")">>,
     <<"//", "exec.Command", "is", "not", "used">>,
     <<"x", ":=", "1">>,
     <<"unsafe", "{", "Command::new", "(", "\"sh\"", ")", "}">>,
     <<"Command::new", "(", "\"sh\"", ")">>,
     <<"unsafe", "{">>,
     <<"let", "a", "=", "1", ";">>}

SourceTexts == UNION {[1..k -> SourceLinePool] : k \in 0..MaxSourceLines}

SourcePaths ==
    {<<"m", ".", "g", "o">>, <<"l", ".", "r", "s">>, <<"n", ".", "t", "x", "t">>, <<"g", "o">>}

FileInit ==
    /\ fpc = "start"
    /\ sourcePath \in SourcePaths
    /\ sourceReadable \in BOOLEAN
    /\ sourceLines \in SourceTexts
    /\ fileFindings = <<>>

\* analyzeFile(filePath)
AnalyzeFile ==
    /\ fpc = "start"
    /\ fpc' = "done"
    /\ fileFindings' = analyzeFile(sourcePath, sourceReadable, sourceLines)
    /\ UNCHANGED <<sourcePath, sourceReadable, sourceLines>>
    /\ UNCHANGED notFile

FileNext == AnalyzeFile

FileIdle ==
    /\ fpc = "idle" /\ sourcePath = <<>> /\ sourceReadable = FALSE
    /\ sourceLines = <<>> /\ fileFindings = <<>>

-----------------------------------------------------------------------------
(* vulnerabilities.ts: scanVulnerabilities, the two sources on one project *)
(* directory. runNpmAudit has no await: called first in the argument of    *)
(* Promise.all, it runs to its return before scanWithOsv is called.        *)

vResolved == <<"4", ".", "1", "7", ".", "2", "2">>

\* the versions the registry can resolve a range to: the one the range
\* names, or a later one
ResolvedVersions(rangeString) == {CleanVersion(rangeString), vResolved}

\* the first declaration of a name in a manifest
FirstDeclaration(manifest, name) ==
    manifest.entries[CHOOSE i \in 1..Len(manifest.entries) :
                         /\ manifest.entries[i].name = name
                         /\ \A j \in 1..(i - 1) : manifest.entries[j].name # name]

\* the lock files `npm install --package-lock-only` can write for a
\* manifest: the root, then one entry per declared name with a resolved
\* version
SynthesizedLocks(manifest) ==
    LET names == getAllDependencies(manifest)
        Resolutions == {v \in [1..Len(names) -> {CleanVersion(rCaret), vResolved}] :
                           \A i \in 1..Len(names) :
                               v[i] \in ResolvedVersions(FirstDeclaration(manifest, names[i]).range)}
        Root == [path |-> pRoot, hasVersion |-> TRUE, version |-> vLodahs, dev |-> FALSE]
    IN  {[kind |-> "flat",
          entries |-> <<Root>> \o
              [i \in 1..Len(names) |->
                  [path |-> NodeModules \o names[i], hasVersion |-> TRUE, version |-> v[i],
                   dev |-> FirstDeclaration(manifest, names[i]).section = "devDependencies"]],
          tree |-> EmptyTree] : v \in Resolutions}

\* scanWithOsv: the package list of the lock file, or of package.json when
\* that list is empty
PackagesToQuery(lock, manifest) ==
    IF Len(parseLockFile(lock)) = 0 THEN parsePackageJson(manifest) ELSE parseLockFile(lock)

JoinInit ==
    /\ jpc = "start"
    /\ jManifest \in ManifestFiles
    /\ jLock0 \in MatcherLocks
    /\ jLock = jLock0
    /\ jYarn \in BOOLEAN
    /\ jDone = {}
    /\ jQueried = <<>>

\* runNpmAudit(targetDir), from the call to the return: the lock synthesis
\* when package.json exists and no lock file does
JoinRunNpmAudit(ok, written) ==
    /\ jpc = "start"
    /\ jpc' = "audited"
    /\ jLock' = IF jManifest.kind # "absent" /\ ~hasLockFile(jLock.kind, jYarn) /\ ok
                THEN written ELSE jLock
    /\ jDone' = jDone \cup {"npm-audit"}
    /\ UNCHANGED <<jManifest, jLock0, jYarn, jQueried>>
    /\ UNCHANGED notJoin

\* scanWithOsv(targetDir): parseLockFile, parsePackageJson and the queries
JoinScanWithOsv ==
    /\ jpc = "audited"
    /\ jpc' = "queried"
    /\ jQueried' = PackagesToQuery(jLock, jManifest)
    /\ jDone' = jDone \cup {"osv"}
    /\ UNCHANGED <<jManifest, jLock0, jLock, jYarn>>
    /\ UNCHANGED notJoin

\* the continuation of `await Promise.all([...])`: the merge
JoinMerge ==
    /\ jpc = "queried"
    /\ jDone = {"npm-audit", "osv"}
    /\ jpc' = "merged"
    /\ UNCHANGED <<jManifest, jLock0, jLock, jYarn, jDone, jQueried>>
    /\ UNCHANGED notJoin

JoinNext ==
    \/ \E written \in SynthesizedLocks(jManifest) : JoinRunNpmAudit(jManifest.kind = "object", written)
    \/ JoinRunNpmAudit(FALSE, jLock)
    \/ JoinScanWithOsv
    \/ JoinMerge

JoinIdle ==
    /\ jpc = "idle" /\ jManifest = NoFile
    /\ jLock0 = [kind |-> "absent", entries |-> <<>>, tree |-> EmptyTree]
    /\ jLock = jLock0 /\ jYarn = FALSE /\ jDone = {} /\ jQueried = <<>>

-----------------------------------------------------------------------------
(* dependencies.ts: inspectDependenciesAsync, vulnerabilities.ts: the      *)
(* calls that suspend it, with a manifest present: the lock synthesis and  *)
(* the audit command (execSync), the batch request and the individual      *)
(* requests (fetch)                                                        *)

MaxWaitPackages == 2

SuspendingCalls == {"synthesis", "audit", "batch", "individual"}

\* the `timeout` option of each execSync call, in milliseconds; the fetch
\* calls are given no signal and no timeout (0)
CallTimeout ==
    [c \in SuspendingCalls |->
        CASE c = "synthesis" -> 60000 [] c = "audit" -> 120000 [] OTHER -> 0]

\* the call is cut after a bounded time: by its timeout option, or by the
\* runtime where its fetch has a limit of its own
IsCut(c) == CallTimeout[c] > 0 \/ (c \in {"batch", "individual"} /\ wRuntimeCuts)

\* where inspectDependenciesAsync goes when call c ends, successfully or not
AfterCall(c, ok, left) ==
    CASE c = "synthesis" -> IF ok THEN "audit" ELSE "batch"
      [] c = "audit" -> "batch"
      [] c = "batch" -> IF ok THEN "returned" ELSE "individual"
      [] c = "individual" -> IF left > 1 THEN "individual" ELSE "returned"

WaitInit ==
    /\ wpc = "start"
    /\ wLock \in BOOLEAN
    /\ wSilent \in SUBSET SuspendingCalls
    /\ wRuntimeCuts \in BOOLEAN
    /\ wPackages \in 1..MaxWaitPackages
    /\ wLeft = 0

\* the threat pass and the call of scanVulnerabilities, up to the first execSync
WaitBegin ==
    /\ wpc = "start"
    /\ wpc' = IF wLock THEN "audit" ELSE "synthesis"
    /\ UNCHANGED <<wLock, wSilent, wRuntimeCuts, wPackages, wLeft>>
    /\ UNCHANGED notWait

\* what follows the end of call c
EndCall(c, ok) ==
    /\ wpc' = AfterCall(c, ok, wLeft)
    /\ wLeft' = CASE c = "batch" /\ ~ok -> wPackages
                  [] c = "individual" -> wLeft - 1
                  [] OTHER -> wLeft
    /\ UNCHANGED <<wLock, wSilent, wRuntimeCuts, wPackages>>
    /\ UNCHANGED notWait

\* the subprocess exits, the request is answered or fails
CallCompletes(c, ok) ==
    /\ wpc = c
    /\ c \notin wSilent
    /\ EndCall(c, ok)

\* the call is cut: execSync throws, fetch rejects; both are caught and
\* counted as a failure
CallTimesOut(c) ==
    /\ wpc = c
    /\ IsCut(c)
    /\ EndCall(c, FALSE)

WaitNext ==
    \/ WaitBegin
    \/ \E c \in SuspendingCalls, ok \in BOOLEAN : CallCompletes(c, ok)
    \/ \E c \in SuspendingCalls : CallTimesOut(c)

WaitIdle ==
    /\ wpc = "idle" /\ wLock = FALSE /\ wSilent = {} /\ wRuntimeCuts = FALSE
    /\ wPackages = 0 /\ wLeft = 0

-----------------------------------------------------------------------------
(* vulnerabilities.ts: the key of the map batchQueryOsv returns and what   *)
(* scanWithOsv reads from it                                               *)

\* String.prototype.split with a separator of one character
RECURSIVE Split(_, _)
Split(str, sep) ==
    IF \A i \in 1..Len(str) : str[i] # sep THEN <<str>>
    ELSE LET at == CHOOSE i \in 1..Len(str) :
                       str[i] = sep /\ \A j \in 1..(i - 1) : str[j] # sep
         IN  <<SubSeq(str, 1, at - 1)>> \o Split(SubSeq(str, at + 1, Len(str)), sep)

\* element k of an array destructuring: undefined past the end
Destructured(pieces, k) == IF k <= Len(pieces) THEN pieces[k] ELSE Undefined

\* `const [pkgName, pkgVersion] = pkgKey.split('@')`
SplitKey(pkgKey) ==
    [name |-> Destructured(Split(pkgKey, "@"), 1),
     version |-> Destructured(Split(pkgKey, "@"), 2)]

\* package names: plain ones and scoped ones
KeyNames ==
    {nLodahs, nLodahsCap, nRequest, nLeftPad,
     <<"@", "b", "a", "b", "e", "l", "/", "c", "o", "r", "e">>,
     <<"@", "t", "y", "p", "e", "s", "/", "n", "o", "d", "e">>}

KeyVersions ==
    {vLodahs, vLeftPadA, vLeftPadB, vResolved, CleanVersion(rCaret),
     <<"2", ".", "0", ".", "0", "-", "r", "c", ".", "1">>, <<"0", ".", "0", ".", "1">>}

KeyInit ==
    /\ ypc = "start"
    /\ yPackage \in [name : KeyNames, version : KeyVersions]
    /\ yKey = <<>>
    /\ yName = <<>>
    /\ yVersion = <<>>

\* batchQueryOsv: results.set(`${pkg.name}@${pkg.version}`, vulns)
SetResult ==
    /\ ypc = "start"
    /\ ypc' = "stored"
    /\ yKey' = PkgKey(yPackage)
    /\ UNCHANGED <<yPackage, yName, yVersion>>
    /\ UNCHANGED notKey

\* scanWithOsv: the split of the key, and the name and version of the finding
ReadResult ==
    /\ ypc = "stored"
    /\ ypc' = "read"
    /\ yName' = SplitKey(yKey).name
    /\ yVersion' = SplitKey(yKey).version
    /\ UNCHANGED <<yPackage, yKey>>
    /\ UNCHANGED notKey

KeyNext == SetResult \/ ReadResult

KeyIdle ==
    /\ ypc = "idle" /\ yPackage = [name |-> <<>>, version |-> <<>>]
    /\ yKey = <<>> /\ yName = <<>> /\ yVersion = <<>>

-----------------------------------------------------------------------------
vars == <<scorerVars, levelVars, depVars, osvVars, auditVars, pkgVars, rangeVars, cvssVars, threatVars, matcherVars, mergeVars, fileVars, joinVars, waitVars, keyVars>>

ScoreInit == ScorerInit /\ LevelIdle /\ DepsIdle /\ OsvIdle /\ AuditIdle /\ PkgIdle /\ RangeIdle /\ CvssIdle /\ ThreatIdle /\ MatcherIdle /\ MergeIdle /\ FileIdle /\ JoinIdle /\ WaitIdle /\ KeyIdle
SpecScore == ScoreInit /\ [][ScorerNext]_vars

LevelSpecInit == LevelInit /\ ScorerIdle /\ DepsIdle /\ OsvIdle /\ AuditIdle /\ PkgIdle /\ RangeIdle /\ CvssIdle /\ ThreatIdle /\ MatcherIdle /\ MergeIdle /\ FileIdle /\ JoinIdle /\ WaitIdle /\ KeyIdle
LevelNext == ApplyGetRiskLevel
SpecLevel == LevelSpecInit /\ [][LevelNext]_vars

DepsSpecInit == DepsInit /\ ScorerIdle /\ LevelIdle /\ OsvIdle /\ AuditIdle /\ PkgIdle /\ RangeIdle /\ CvssIdle /\ ThreatIdle /\ MatcherIdle /\ MergeIdle /\ FileIdle /\ JoinIdle /\ WaitIdle /\ KeyIdle
SpecDeps == DepsSpecInit /\ [][DepsNext]_vars

OsvSpecInit == OsvInit /\ ScorerIdle /\ LevelIdle /\ DepsIdle /\ AuditIdle /\ PkgIdle /\ RangeIdle /\ CvssIdle /\ ThreatIdle /\ MatcherIdle /\ MergeIdle /\ FileIdle /\ JoinIdle /\ WaitIdle /\ KeyIdle
SpecOsv == OsvSpecInit /\ [][OsvNext]_vars

AuditSpecInit == AuditInit /\ ScorerIdle /\ LevelIdle /\ DepsIdle /\ OsvIdle /\ PkgIdle /\ RangeIdle /\ CvssIdle /\ ThreatIdle /\ MatcherIdle /\ MergeIdle /\ FileIdle /\ JoinIdle /\ WaitIdle /\ KeyIdle
SpecAudit == AuditSpecInit /\ [][AuditNext]_vars

PkgSpecInit == PkgInit /\ ScorerIdle /\ LevelIdle /\ DepsIdle /\ OsvIdle /\ AuditIdle /\ RangeIdle /\ CvssIdle /\ ThreatIdle /\ MatcherIdle /\ MergeIdle /\ FileIdle /\ JoinIdle /\ WaitIdle /\ KeyIdle
SpecPkg == PkgSpecInit /\ [][PkgNext]_vars

RangeSpecInit == RangeInit /\ ScorerIdle /\ LevelIdle /\ DepsIdle /\ OsvIdle /\ AuditIdle /\ PkgIdle /\ CvssIdle /\ ThreatIdle /\ MatcherIdle /\ MergeIdle /\ FileIdle /\ JoinIdle /\ WaitIdle /\ KeyIdle
SpecRange == RangeSpecInit /\ [][RangeNext]_vars

CvssSpecInit == CvssInit /\ ScorerIdle /\ LevelIdle /\ DepsIdle /\ OsvIdle /\ AuditIdle /\ PkgIdle /\ RangeIdle /\ ThreatIdle /\ MatcherIdle /\ MergeIdle /\ FileIdle /\ JoinIdle /\ WaitIdle /\ KeyIdle
SpecCvss == CvssSpecInit /\ [][CvssNext]_vars

ThreatSpecInit == ThreatInit /\ ScorerIdle /\ LevelIdle /\ DepsIdle /\ OsvIdle /\ AuditIdle /\ PkgIdle /\ RangeIdle /\ CvssIdle /\ MatcherIdle /\ MergeIdle /\ FileIdle /\ JoinIdle /\ WaitIdle /\ KeyIdle
SpecThreat == ThreatSpecInit /\ [][ThreatNext]_vars

MatcherSpecInit == MatcherInit /\ ScorerIdle /\ LevelIdle /\ DepsIdle /\ OsvIdle /\ AuditIdle /\ PkgIdle /\ RangeIdle /\ CvssIdle /\ ThreatIdle /\ MergeIdle /\ FileIdle /\ JoinIdle /\ WaitIdle /\ KeyIdle
SpecMatcher == MatcherSpecInit /\ [][MatcherNext]_vars

MergeSpecInit == MergeInit /\ ScorerIdle /\ LevelIdle /\ DepsIdle /\ OsvIdle /\ AuditIdle /\ PkgIdle /\ RangeIdle /\ CvssIdle /\ ThreatIdle /\ MatcherIdle /\ FileIdle /\ JoinIdle /\ WaitIdle /\ KeyIdle
SpecMerge == MergeSpecInit /\ [][MergeNext]_vars

FileSpecInit == FileInit /\ ScorerIdle /\ LevelIdle /\ DepsIdle /\ OsvIdle /\ AuditIdle /\ PkgIdle /\ RangeIdle /\ CvssIdle /\ ThreatIdle /\ MatcherIdle /\ MergeIdle /\ JoinIdle /\ WaitIdle /\ KeyIdle
SpecFile == FileSpecInit /\ [][FileNext]_vars

JoinSpecInit == JoinInit /\ ScorerIdle /\ LevelIdle /\ DepsIdle /\ OsvIdle /\ AuditIdle /\ PkgIdle /\ RangeIdle /\ CvssIdle /\ ThreatIdle /\ MatcherIdle /\ MergeIdle /\ FileIdle /\ WaitIdle /\ KeyIdle
SpecJoin == JoinSpecInit /\ [][JoinNext]_vars

WaitSpecInit == WaitInit /\ ScorerIdle /\ LevelIdle /\ DepsIdle /\ OsvIdle /\ AuditIdle /\ PkgIdle /\ RangeIdle /\ CvssIdle /\ ThreatIdle /\ MatcherIdle /\ MergeIdle /\ FileIdle /\ JoinIdle /\ KeyIdle
SpecWait == WaitSpecInit /\ [][WaitNext]_vars

\* the event loop runs whatever is ready: a step that stays possible is taken
SpecWaitFair == WaitSpecInit /\ [][WaitNext]_vars /\ WF_vars(WaitNext)

KeySpecInit == KeyInit /\ ScorerIdle /\ LevelIdle /\ DepsIdle /\ OsvIdle /\ AuditIdle /\ PkgIdle /\ RangeIdle /\ CvssIdle /\ ThreatIdle /\ MatcherIdle /\ MergeIdle /\ FileIdle /\ JoinIdle /\ WaitIdle
SpecKey == KeySpecInit /\ [][KeyNext]_vars

-----------------------------------------------------------------------------
(* Properties of the scorer *)

LevelRank(l) == CHOOSE i \in 1..Len(RiskLevels) : RiskLevels[i] = l

\* C1: calculateRiskScore returns an integer in [0, 100] for every list of
\* code findings (any category string) and every list of dependency findings.
C1_ScoreInRange == spc = "done" => riskScore \in 0..MaxRiskScore

\* C2: on 0..100 getRiskLevel is safe iff 0, low iff 1..20, medium iff 21..50,
\* high iff 51..75, critical iff 76..100, and it is monotone non-decreasing
\* in the score under safe < low < medium < high < critical.
C2_LevelTable ==
    lpc = "done" =>
        /\ (levelA = "safe") <=> (probeA = 0)
        /\ (levelA = "low") <=> (1 <= probeA /\ probeA <= 20)
        /\ (levelA = "medium") <=> (21 <= probeA /\ probeA <= 50)
        /\ (levelA = "high") <=> (51 <= probeA /\ probeA <= 75)
        /\ (levelA = "critical") <=> (76 <= probeA /\ probeA <= MaxRiskScore)
        /\ probeA <= probeB => LevelRank(levelA) <= LevelRank(levelB)

\* the two sides of the low/medium boundary, each mapped
C2_Witness ==
    lpc = "done" /\ probeA = 20 /\ probeB = 21 /\ levelA = "low" /\ levelB = "medium"

\* C3: calculateRiskScore equals min(100, S), S the sum of
\* max(category weight or 0, severity weight) over the code findings plus the
\* dependency weights; ten Environment Access / low findings give 100, critical.
C3_ScoreIsCappedSum ==
    spc = "done" =>
        /\ riskScore = (IF claimedSum <= MaxRiskScore THEN claimedSum ELSE MaxRiskScore)
        /\ (onlyEnvLow /\ nCode = 10 /\ nDeps = 0) =>
               (riskScore = MaxRiskScore /\ riskLevel = "critical")

-----------------------------------------------------------------------------
(* Properties of the dependency reconciliation *)

\* the identity key of a finding: lower-cased name, then cveId or else reason
IdentityKey(f) == <<ToLowerCase(f.name), CveOrReason(f)>>

\* inspectDependenciesAsync has returned
AsyncReturned == called = "async" /\ dpc \in {"returned", "done"}

\* the positions of list whose finding has the key k
WithKey(list, k) == {i \in 1..Len(list) : IdentityKey(list[i]) = k}

Elements(list) == {list[i] : i \in 1..Len(list)}

\* C5: no two findings of the list inspectDependenciesAsync returns have the
\* same identity key.
C5_UniqueKeys ==
    AsyncReturned =>
        \A i, j \in 1..Len(depFindings) :
            i # j => IdentityKey(depFindings[i]) # IdentityKey(depFindings[j])

\* C6: when a threat-table finding and an audit or OSV finding have the same
\* identity key, the result holds that key exactly once, with the
\* threat-table finding.
C6_ThreatTableFirst ==
    AsyncReturned =>
        \A t \in Elements(threatFindings) :
            \A v \in Elements(npmFindings) \cup Elements(osvFindings) :
                (t.source = "threat-db" /\ IdentityKey(t) = IdentityKey(v)) =>
                    /\ Cardinality(WithKey(depFindings, IdentityKey(t))) = 1
                    /\ \A i \in WithKey(depFindings, IdentityKey(t)) :
                           depFindings[i].source = "threat-db"

\* C7: when an audit finding and an OSV finding have the same identity key
\* (names compared lower-cased), the result holds exactly one finding for the
\* key, and it is the audit finding.
C7_AuditOverOsv ==
    AsyncReturned =>
        \A a \in Elements(npmFindings) :
            \A o \in Elements(osvFindings) :
                IdentityKey(a) = IdentityKey(o) =>
                    /\ Cardinality(WithKey(depFindings, IdentityKey(a))) = 1
                    /\ \A i \in WithKey(depFindings, IdentityKey(a)) :
                           depFindings[i].source = "npm-audit"

\* the findings of one severity, in list order
OfSeverity(list, s) == LET Is(f) == f.severity = s IN SelectSeq(list, Is)

\* sub can be obtained from list by dropping elements
RECURSIVE IsSubsequence(_, _)
IsSubsequence(sub, list) ==
    IF sub = <<>> THEN TRUE
    ELSE IF list = <<>> THEN FALSE
    ELSE IF Head(sub) = Head(list) THEN IsSubsequence(Tail(sub), Tail(list))
    ELSE IsSubsequence(sub, Tail(list))

\* the names of the findings of a list
Names(list) == [i \in 1..Len(list) |-> list[i].name]

\* C8: the list inspectDependencies and inspectDependenciesAsync return is
\* ordered critical, high, medium, low, and findings of equal severity keep
\* the order in which they were produced: threat findings in manifest order,
\* then the merged audit/OSV findings in merge order.
C8_StableSeverityOrder ==
    (called # "" /\ dpc \in {"returned", "done"}) =>
        /\ \A i, j \in 1..Len(depFindings) :
               i < j => severityOrder[depFindings[i].severity]
                            <= severityOrder[depFindings[j].severity]
        /\ \A s \in RiskSeverity : OfSeverity(depFindings, s) = OfSeverity(produced, s)
        /\ Len(produced) >= Len(threatFindings)
        /\ SubSeq(produced, 1, Len(threatFindings)) = threatFindings
        /\ IsSubsequence(Names(threatFindings), dependencies)
        /\ IsSubsequence(SubSeq(produced, Len(threatFindings) + 1, Len(produced)),
                         vulnerabilities)

\* a threat finding and a later vulnerability of the same severity, in a
\* list the sort had to reorder
C8_Witness ==
    /\ AsyncReturned
    /\ depFindings # produced
    /\ \E i, j \in 1..Len(depFindings) :
           /\ i < j
           /\ depFindings[i].severity = depFindings[j].severity
           /\ depFindings[i].source = "threat-db"
           /\ depFindings[j].source = "osv"

-----------------------------------------------------------------------------
(* Properties of batchQueryOsv *)

\* the batch request failed: non-success status, network error, or a body
\* that cannot be used
BatchFailed == batchKind \in {"status", "network", "not_json"}

MapKeys(map) == {map[i].key : i \in 1..Len(map)}
MapGet(map, k) == map[CHOOSE i \in 1..Len(map) : map[i].key = k].value

\* the individual queries for the key k that returned advisories
Answered(k) ==
    {j \in 1..Len(individual) :
        PkgKey(packages[individual[j].pkg]) = k /\ individual[j].vulns # <<>>}

-----------------------------------------------------------------------------
(* Properties of the failure of one dependency source *)

\* C11: a failed source removes only its own contribution: when the OSV scan
\* fails, every audit finding is in the list inspectDependenciesAsync
\* returns; when the audit fails, every OSV finding is in it.
C11_FailureRemovesOnlyOwnSource ==
    AsyncReturned =>
        /\ osvOutcome \in OsvFailures =>
               \A a \in Elements(npmFindings) : a \in Elements(depFindings)
        /\ auditOutcome \in AuditFailures =>
               \A o \in Elements(osvFindings) :
                   \E f \in Elements(depFindings) :
                       f.source = "osv" /\ IdentityKey(f) = IdentityKey(o)

-----------------------------------------------------------------------------
(* Properties of runNpmAudit *)

\* C12: when an exception occurs anywhere in runNpmAudit's pipeline, also
\* while processing an entry after earlier entries were processed,
\* runNpmAudit returns the empty list.
C12_ExceptionGivesEmptyList ==
    (apc = "returned" /\ aCaught) => aResult = <<>>

\* C13 as stated: the lock file after runNpmAudit is the lock file before it.
C13_LockFileUntouched ==
    packageLock = packageLock0

\* C13: runNpmAudit leaves an existing package-lock.json as it was, and
\* creates none when the project has a yarn.lock or no manifest; the only
\* change it makes is a new package-lock.json in a project that has a
\* manifest and no lock file of either kind.
C13_LockFileOnlySynthesized ==
    /\ packageLock \in {packageLock0, "synthesized"}
    /\ (packageLock0 # "absent" \/ yarnLock \/ ~manifestExists) =>
           packageLock = packageLock0
    /\ (apc = "returned" /\ auditRun # "") => packageLock # "absent" \/ yarnLock

\* a project with a manifest and no lock file: runNpmAudit returned findings
\* and left a package-lock.json behind
C13_Witness ==
    /\ apc = "returned"
    /\ manifestExists /\ ~yarnLock
    /\ packageLock0 = "absent"
    /\ packageLock = "synthesized"
    /\ aResult # <<>>

\* the severity the specification's table gives for a severity string
DocNpmSeverity(s) ==
    CASE s = <<"c", "r", "i", "t", "i", "c", "a", "l">> -> "critical"
      [] s = <<"C", "R", "I", "T", "I", "C", "A", "L">> -> "critical"
      [] s = <<"H", "i", "g", "h">> -> "high"
      [] s = <<"m", "o", "d", "e", "r", "a", "t", "e">> -> "medium"
      [] s = <<"m", "e", "d", "i", "u", "m">> -> "medium"
      [] s = <<"L", "o", "w">> -> "low"
      [] s = <<"i", "n", "f", "o">> -> "low"
      [] OTHER -> "medium"

\* C18: mapNpmSeverity is total and insensitive to case: critical, high,
\* moderate|medium -> medium, low|info -> low, anything else -> medium; every
\* finding runNpmAudit emits has the severity it gives for the report's
\* severity string.
C18_NpmSeverityTable ==
    /\ \A s \in SeverityStrings : mapNpmSeverity(s) = DocNpmSeverity(s)
    /\ Len(aFindings) <= Len(report)
    /\ \A i \in 1..Len(aFindings) :
           /\ aFindings[i].name = report[i].name
           /\ aFindings[i].severity = DocNpmSeverity(report[i].severity)
           /\ aFindings[i].severity \in RiskSeverity

\* a report with an upper-case CRITICAL and an unknown severity string
C18_Witness ==
    /\ apc = "returned"
    /\ Len(aResult) = 2
    /\ report[1].severity = <<"C", "R", "I", "T", "I", "C", "A", "L">>
    /\ aResult[1].severity = "critical"
    /\ report[2].severity = <<"s", "e", "v", "e", "r", "e">>
    /\ aResult[2].severity = "medium"

-----------------------------------------------------------------------------
(* Properties of the package list *)

\* C14: scanWithOsv takes its package list from the manifest only when the
\* lock file is absent or fails to parse; when a lock file exists and
\* parses, the list queried is the lock file's packages, also when that
\* list is empty.
C14_ManifestOnlyWithoutLockFile ==
    kpc = "selected" =>
        /\ usedManifest => lockFile.kind \in {"absent", "not_json"}
        /\ lockFile.kind \notin {"absent", "not_json"} => queried = lockRefs

\* C15: the package list of the manifest fallback holds each name at most
\* once, also when sections of the manifest declare the same name.
C15_FallbackNamesUnique ==
    (kpc = "selected" /\ usedManifest) =>
        \A i, j \in 1..Len(queried) : i # j => queried[i].name # queried[j].name

\* node i itself and the nodes above it
RECURSIVE SelfAndAncestors(_, _)
SelfAndAncestors(tree, i) ==
    IF i = 0 THEN {} ELSE {i} \cup SelfAndAncestors(tree, tree.parent[i])

\* the nodes of a tree that have a version
Versioned(tree) == {i \in 1..tree.n : tree.hasVersion[i]}

\* C17: in the nested lock-file schema a package is dev exactly when it or
\* one of its ancestors is marked dev, at any depth, and every entry with a
\* version yields one PackageRef.
C17_DevFlagPropagates ==
    (kpc # "start" /\ lockFile.kind = "nested") =>
        /\ Len(lockRefs) = Cardinality(Versioned(lockFile.tree))
        /\ \A i \in Versioned(lockFile.tree) :
               \E k \in 1..Len(lockRefs) :
                   /\ lockRefs[k].name = TreeName(i)
                   /\ lockRefs[k].version = TreeVersion(i)
                   /\ lockRefs[k].isDev =
                          (\E a \in SelfAndAncestors(lockFile.tree, i) : lockFile.tree.dev[a])
                   /\ \A l \in 1..Len(lockRefs) : lockRefs[l].name = TreeName(i) => l = k

\* a chain of three entries: the top one marked dev, its child and its
\* grandchild not marked; the grandchild is a dev package
C17_Witness ==
    /\ kpc = "selected"
    /\ lockFile.kind = "nested"
    /\ lockFile.tree.n = 3
    /\ lockFile.tree.parent = <<0, 1, 2>>
    /\ lockFile.tree.dev = <<TRUE, FALSE, FALSE>>
    /\ lockFile.tree.hasVersion = <<FALSE, FALSE, TRUE>>
    /\ lockRefs = <<PackageRef(TreeName(3), TreeVersion(3), TRUE)>>

-----------------------------------------------------------------------------
(* Properties of the version cleaning *)

\* C16: for a range whose first comparator is one of ^, ~, >=, <=, >, < (or
\* no operator) applied to a version v, the version of the manifest
\* fallback is exactly v: no operator character in front, nothing after the
\* first token.
C16_CleanedIsVersion ==
    rpc = "done" =>
        /\ cleaned = rVersion
        /\ (cleaned # <<>> => Head(cleaned) \notin RangeOperatorChars)

-----------------------------------------------------------------------------
(* Properties of the OSV severity *)

\* the advisory carries a CVSS v3 score
HasCvssV3 == advFormat \in {"number", "vector30", "vector31"}

\* C19: an OSV finding is critical when the advisory's CVSS v3 score is at
\* least 9.0, high from 7.0, medium from 4.0, low below 4.0, and medium when
\* the advisory carries no CVSS v3 score.
C19_CvssSeverity ==
    cpc = "done" =>
        /\ HasCvssV3 =>
               osvSeverity = (IF advBase >= 90 THEN "critical"
                              ELSE IF advBase >= 70 THEN "high"
                              ELSE IF advBase >= 40 THEN "medium"
                              ELSE "low")
        /\ ~HasCvssV3 => osvSeverity = "medium"

-----------------------------------------------------------------------------
(* Properties of checkDependency *)

\* C20: for a name equal, ignoring case, to the name of a threat-table entry
\* checkDependency returns that entry's severity and reason with source
\* 'threat-db', whether or not the name matches a pattern; it returns at
\* most one finding, and none for a name in no table that matches no pattern.
C20_ThreatTableMatch ==
    tpc = "done" =>
        /\ Len(tResult) <= 1
        /\ tBase # 0 =>
               tResult = <<Finding(checkedName, THREAT_DATABASE[tBase].severity,
                                   THREAT_DATABASE[tBase].reason, "", "", "threat-db")>>
        /\ checkedName \in PlainNames => tResult = <<>>

\* "Crypto-miner" spells the table's crypto-miner and also matches the miner
\* pattern: the finding is the table's
C20_Witness ==
    /\ tpc = "done"
    /\ checkedName = <<"C", "r", "y", "p", "t", "o", "-", "m", "i", "n", "e", "r">>
    /\ PatternTest("miner", checkedName)
    /\ Len(tResult) = 1
    /\ tResult[1].source = "threat-db"
    /\ tResult[1].severity = "critical"
    /\ tResult[1].reason = "Cryptocurrency mining malware"

\* the order of the patterns as the specification lists them
DocPatternOrder == <<"steal", "keylog", "backdoor", "miner", "npm-prefix">>

\* the entry of SUSPICIOUS_PATTERNS with the given id
PatternEntry(id) ==
    SUSPICIOUS_PATTERNS[CHOOSE i \in 1..Len(SUSPICIOUS_PATTERNS) :
                            SUSPICIOUS_PATTERNS[i].id = id]

\* C21: for a name with no threat-table match that matches several patterns,
\* the finding is that of the first matching pattern in the order
\* credential theft, keylogger, backdoor, miner, suspicious prefix.
C21_FirstPatternInDocOrder ==
    (tpc = "done" /\ tBase = 0) =>
        LET matching == {k \in 1..Len(DocPatternOrder) :
                            PatternTest(DocPatternOrder[k], checkedName)}
        IN  matching # {} =>
                LET first == CHOOSE k \in matching : \A l \in matching : k <= l
                IN  tResult = <<Finding(checkedName,
                                        PatternEntry(DocPatternOrder[first]).severity,
                                        PatternEntry(DocPatternOrder[first]).reason,
                                        "", "", "pattern")>>

-----------------------------------------------------------------------------
(* Properties of the threat matcher over a project *)

\* the names of the project's package list: the lock file's packages when a
\* lock file exists, otherwise the manifest's
ProjectPackageNames ==
    IF mLock.kind # "absent"
    THEN {parseLockFile(mLock)[i].name : i \in 1..Len(parseLockFile(mLock))}
    ELSE {parsePackageJson(mManifest)[i].name : i \in 1..Len(parsePackageJson(mManifest))}

\* C22: for every package of the project's package list whose name
\* checkDependency flags, the list inspectDependenciesAsync returns holds a
\* threat-table or pattern finding for that name.
C22_MatcherCoversPackageList ==
    (mpc = "returned" /\ mManifest.kind = "object") =>
        \A n \in ProjectPackageNames :
            checkDependency(n) # <<>> =>
                \E i \in 1..Len(mFindings) :
                    /\ mFindings[i].name = n
                    /\ mFindings[i].source \in {"threat-db", "pattern"}

-----------------------------------------------------------------------------
(* End-to-end properties of the dependency side *)

\* the findings of a list that come from the threat matcher
MatcherFindings(list) ==
    LET FromMatcher(f) == f.source \in {"threat-db", "pattern"}
    IN  SelectSeq(list, FromMatcher)

\* C23: with a manifest whose only dependency is lodahs, whatever the audit
\* tool and the database return or however they fail, the list
\* inspectDependenciesAsync returns holds exactly one threat-matcher finding:
\* lodahs, critical, with the typosquatting reason; dependencyFindingsCount
\* is at least 1.
C23_LodahsEndToEnd ==
    (called = "async" /\ hasManifest /\ dependencies = <<nLodahs>>) =>
        /\ dpc \in {"returned", "done"} =>
               MatcherFindings(depFindings) =
                   <<Finding(nLodahs, "critical",
                             "Typosquatting of lodash - malicious package", "", "",
                             "threat-db")>>
        /\ dpc = "done" => dependencyFindingsCount >= 1

\* the audit reports lodahs as well and the database cannot be reached
C23_Witness ==
    /\ called = "async" /\ dpc = "done"
    /\ hasManifest /\ dependencies = <<nLodahs>>
    /\ auditOutcome = "report" /\ npmFindings # <<>>
    /\ osvOutcome = "network_error"
    /\ Len(depFindings) >= 2
    /\ dependencyFindingsCount = Len(depFindings)

\* calculateRiskScore, the loop over the dependency findings: what the
\* dependency side adds to the score before the cap
RECURSIVE DependencyScore(_)
DependencyScore(list) ==
    IF list = <<>> THEN 0
    ELSE JsAdd(DependencyScore(Tail(list)), DEPENDENCY_SEVERITY_WEIGHTS[Head(list).severity])

ZeroDependencyScan ==
    called = "async" /\ hasManifest /\ dependencies = <<>> /\ dpc = "done"

\* C24 as stated: a manifest that declares no dependency gives
\* dependencyFindingsCount = 0 and adds nothing to the score, whatever the
\* audit and the vulnerability database return.
C24_ZeroDepsZeroCount ==
    ZeroDependencyScan =>
        dependencyFindingsCount = 0 /\ DependencyScore(depFindings) = 0

-----------------------------------------------------------------------------
(* Properties of the merge step *)

\* the identity keys of the findings of a list
IdentityKeys(list) == {IdentityKey(list[i]) : i \in 1..Len(list)}

\* C25: merging a finding list with itself gives a list with the identity
\* keys of the input, each exactly once, and merging that result with itself
\* gives the same list again.
C25_MergeIdempotent ==
    /\ gpc \in {"merged", "again"} =>
           /\ IdentityKeys(mergedOnce) = IdentityKeys(mergeList)
           /\ \A k \in IdentityKeys(mergeList) : Cardinality(WithKey(mergedOnce, k)) = 1
    /\ gpc = "again" => mergedTwice = mergedOnce

-----------------------------------------------------------------------------
(* Properties of analyzeFile *)

\* pattern matches somewhere in the text
MatchesText(pattern, lines) ==
    \E n \in 1..Len(lines) : \E m \in pattern.matches : Occurrences(lines[n], m) # {}

\* the file is handled by an analyzer and can be read
FileAnalyzed == getAnalyzerForFile(sourcePath) # 0 /\ sourceReadable

PatternsOfFile == ANALYZERS[getAnalyzerForFile(sourcePath)].patterns

\* the text holds a shell-execution call of the language of the file
HasShellCall ==
    \E p \in 1..Len(PatternsOfFile) :
        /\ PatternsOfFile[p].category = "Shell Execution"
        /\ MatchesText(PatternsOfFile[p], sourceLines)

\* the text holds a construct of a pattern registered before every
\* shell-execution pattern
HasEarlierConstruct ==
    \E p \in 1..Len(PatternsOfFile) :
        /\ \A q \in 1..p : PatternsOfFile[q].category # "Shell Execution"
        /\ MatchesText(PatternsOfFile[p], sourceLines)

ReportsExactlyRiskyFiles ==
    fileFindings # <<>> <=>
        (FileAnalyzed /\ \E p \in 1..Len(PatternsOfFile) :
                             MatchesText(PatternsOfFile[p], sourceLines))

-----------------------------------------------------------------------------
(* Properties of the steps of runNpmAudit *)

LockFileAtStart == hasLockFile(packageLock0, yarnLock)

\* C27: without a manifest runNpmAudit returns the empty list and runs no
\* command; with a manifest and no lock file the lock synthesis is the first
\* command; the audit command runs only after a lock file existed or the
\* synthesis succeeded; after a failed synthesis the result is the empty list
\* and no other command runs (no audit, no installation).
C27_StepOrder ==
    /\ ~manifestExists =>
           execLog = <<>> /\ (apc = "returned" => aResult = <<>>)
    /\ (manifestExists /\ ~LockFileAtStart /\ apc \notin {"start", "synthesize"}) =>
           execLog # <<>> /\ execLog[1] = LockOnlyInstall
    /\ (\E i \in 1..Len(execLog) : execLog[i] = AuditCommand) =>
           /\ manifestExists
           /\ \/ LockFileAtStart /\ execLog = <<AuditCommand>>
              \/ packageLock = "synthesized" /\ execLog = <<LockOnlyInstall, AuditCommand>>
    /\ (execLog # <<>> /\ execLog[1] = LockOnlyInstall /\ packageLock # "synthesized") =>
           apc = "returned" /\ aResult = <<>> /\ execLog = <<LockOnlyInstall>>
    /\ \A i \in 1..Len(execLog) : execLog[i] \in {LockOnlyInstall, AuditCommand}

C27_Witness ==
    /\ apc = "returned" /\ manifestExists /\ ~LockFileAtStart
    /\ packageLock = "absent"
    /\ execLog = <<LockOnlyInstall>>
    /\ aResult = <<>>

-----------------------------------------------------------------------------
(* Properties of the two sources of scanVulnerabilities *)

\* C28: the package list scanWithOsv queries inside scanVulnerabilities is
\* the one it queries when it runs without runNpmAudit, on the project as it
\* was at the call, and the merge starts only after both sources completed.
C28_SourcesIndependent ==
    /\ jpc \in {"queried", "merged"} => jQueried = PackagesToQuery(jLock0, jManifest)
    /\ jpc = "merged" => jDone = {"npm-audit", "osv"}

-----------------------------------------------------------------------------
(* Properties of the suspending calls *)

\* C29: inspectDependenciesAsync eventually returns in every execution, also
\* when a subprocess never exits on its own and when the remote database
\* never answers a request.
C29_EventuallyReturns == <>(wpc = "returned")

-----------------------------------------------------------------------------
(* Properties of the map key *)

\* C30: the name and the version scanWithOsv reads from a key of the map are
\* the name and the version of the package the key was built from, for plain
\* and for scoped names.
C30_KeyRoundTrip ==
    ypc = "read" => yName = yPackage.name /\ yVersion = yPackage.version

====
